---- MODULE Spec2Model ----
(***************************************************************************)
(* Verification model of netas-ch/msg.reader (src/src/MsgReader.js): the   *)
(* compound-file decoder and the property extraction built on it.          *)
(*                                                                         *)
(* A buffer is a length and a sparse map from byte offsets to byte values  *)
(* (every byte not in the map is 0).  Names are sequences of UTF-16 code   *)
(* units.  Integers wider than 31 bits are kept as sign-magnitude numbers  *)
(* with base-10000 digits (Big...), because TLC's integers are 32-bit.     *)
(***************************************************************************)
EXTENDS Integers, Sequences, FiniteSets, TLC

VARIABLES ds, pc, fileData, headers, ret, arg, hier, walk

vars == <<ds, pc, fileData, headers, ret, arg, hier, walk>>

(***************************************************************************)
(* Values shared by every specification.                                   *)
(***************************************************************************)
Idle == [idle |-> TRUE]

NoBuffer == [len |-> 0, mem |-> <<>>]

RECURSIVE SeqSum(_)
SeqSum(s) == IF s = <<>> THEN 0 ELSE Head(s) + SeqSum(Tail(s))

Min(a, b) == IF a < b THEN a ELSE b

\* Body applied to the value of v, which is computed once
Bind(v, Body(_)) == CHOOSE r \in { Body(x) : x \in {v} } : TRUE

Max(a, b) == IF a > b THEN a ELSE b

(***************************************************************************)
(* Arbitrary-precision integers (JavaScript BigInt): sign and magnitude,   *)
(* the magnitude a little-endian sequence of base-10000 digits without     *)
(* leading zero digits; zero is the empty magnitude with neg = FALSE.      *)
(***************************************************************************)
BigBase == 10000

RECURSIVE MagTrim(_)
MagTrim(m) ==
    IF m = <<>> THEN <<>>
    ELSE IF m[Len(m)] = 0 THEN MagTrim(SubSeq(m, 1, Len(m) - 1))
    ELSE m

RECURSIVE MagFromNat(_)
MagFromNat(n) ==
    IF n = 0 THEN <<>> ELSE <<n % BigBase>> \o MagFromNat(n \div BigBase)

MagDigit(m, i) == IF i <= Len(m) THEN m[i] ELSE 0

RECURSIVE MagAddFrom(_, _, _, _)
MagAddFrom(a, b, i, carry) ==
    IF i > Len(a) /\ i > Len(b)
    THEN (IF carry = 0 THEN <<>> ELSE <<carry>>)
    ELSE LET s == MagDigit(a, i) + MagDigit(b, i) + carry
         IN  <<s % BigBase>> \o MagAddFrom(a, b, i + 1, s \div BigBase)

MagAdd(a, b) == MagTrim(MagAddFrom(a, b, 1, 0))

\* a - b for a >= b
RECURSIVE MagSubFrom(_, _, _, _)
MagSubFrom(a, b, i, borrow) ==
    IF i > Len(a) THEN <<>>
    ELSE LET d == MagDigit(a, i) - MagDigit(b, i) - borrow
         IN  IF d < 0
             THEN <<d + BigBase>> \o MagSubFrom(a, b, i + 1, 1)
             ELSE <<d>> \o MagSubFrom(a, b, i + 1, 0)

MagSub(a, b) == MagTrim(MagSubFrom(a, b, 1, 0))

\* multiplication by a small factor k (k <= 65536)
RECURSIVE MagMulFrom(_, _, _, _)
MagMulFrom(a, k, i, carry) ==
    IF i > Len(a) THEN MagFromNat(carry)
    ELSE LET p == a[i] * k + carry
         IN  <<p % BigBase>> \o MagMulFrom(a, k, i + 1, p \div BigBase)

MagMul(a, k) == MagTrim(MagMulFrom(a, k, 1, 0))

RECURSIVE MagLessFrom(_, _, _)
MagLessFrom(a, b, i) ==
    IF i = 0 THEN FALSE
    ELSE IF a[i] # b[i] THEN a[i] < b[i]
    ELSE MagLessFrom(a, b, i - 1)

MagLess(a, b) ==
    IF Len(a) # Len(b) THEN Len(a) < Len(b) ELSE MagLessFrom(a, b, Len(a))

BigMake(neg, m) ==
    LET t == MagTrim(m) IN [neg |-> (neg /\ t # <<>>), mag |-> t]

BigZero == BigMake(FALSE, <<>>)

\* a JavaScript Number holding an int32, as a BigInt
BigFromInt(n) ==
    IF n >= 0 THEN BigMake(FALSE, MagFromNat(n))
    ELSE BigMake(TRUE, MagAdd(MagFromNat(-(n + 1)), <<1>>))

BigNeg(x) == BigMake(~x.neg, x.mag)

BigAdd(x, y) ==
    IF x.neg = y.neg THEN BigMake(x.neg, MagAdd(x.mag, y.mag))
    ELSE IF MagLess(x.mag, y.mag) THEN BigMake(y.neg, MagSub(y.mag, x.mag))
    ELSE BigMake(x.neg, MagSub(x.mag, y.mag))

BigSub(x, y) == BigAdd(x, BigNeg(y))

\* x << 32n
BigShl32(x) == BigMake(x.neg, MagMul(MagMul(x.mag, 65536), 65536))

\* x / 10000n: BigInt division truncates towards zero
BigDiv10000(x) ==
    BigMake(x.neg, IF x.mag = <<>> THEN <<>> ELSE Tail(x.mag))

\* the unsigned value of little-endian bytes
RECURSIVE MagFromBytesLE(_)
MagFromBytesLE(bytes) ==
    IF bytes = <<>> THEN <<>>
    ELSE MagAdd(MagMul(MagFromBytesLE(Tail(bytes)), 256), MagFromNat(Head(bytes)))

\* 116444736000000000, the ticks between 1601-01-01 and 1970-01-01
EpochTicks == BigMake(FALSE, <<0, 0, 7360, 6444, 11>>)

(***************************************************************************)
(* #convertFiletimeToDateTime.  The two halves are built with the 32-bit   *)
(* operators | and <<, so each is a signed int32.  BigInt's | works on the *)
(* two's complement with infinite sign extension: a negative low half has  *)
(* every bit from 32 upwards set, so the result of the | is the low half   *)
(* itself; a non-negative low half shares no bit with high << 32 and the   *)
(* | is a sum.  The result is the time value of the Date, in milliseconds. *)
(***************************************************************************)
Int32OfBytes(b0, b1, b2, b3) ==
    b0 + b1 * 256 + b2 * 65536 + (IF b3 >= 128 THEN b3 - 256 ELSE b3) * 16777216

BigOrHighLow(highPart, lowPart) ==
    IF lowPart < 0 THEN BigFromInt(lowPart)
    ELSE BigAdd(BigShl32(BigFromInt(highPart)), BigFromInt(lowPart))

ConvertFiletimeToDateTime(filetime) ==
    LET lowPart  == Int32OfBytes(filetime[1], filetime[2], filetime[3], filetime[4])
        highPart == Int32OfBytes(filetime[5], filetime[6], filetime[7], filetime[8])
        filetimeValue == BigOrHighLow(highPart, lowPart)
        unixTicks == BigDiv10000(BigSub(filetimeValue, EpochTicks))
    IN  unixTicks

(***************************************************************************)
(* DataStream over a buffer [len, mem].  A read that leaves the buffer     *)
(* throws a RangeError in the code; the buffers drawn below are complete   *)
(* (every sector the tables name lies inside them), and OutOfBuffer has no *)
(* value, so that TLC stops if a read ever leaves the buffer.              *)
(***************************************************************************)
OutOfBuffer == CHOOSE x \in {} : TRUE

\* the value undefined (also NaN) where the code computes with sector
\* numbers; no int32 of the buffers drawn has this value
Undefined == -2147483647 - 1

\* DataStream.seek: the position is clamped to the buffer, NaN becomes 0
Seek(stream, pos) ==
    IF pos = Undefined THEN 0 ELSE Max(0, Min(stream.len, pos))

ReadUint8At(stream, pos) ==
    IF pos < 0 \/ pos >= stream.len THEN OutOfBuffer
    ELSE IF pos \in DOMAIN stream.mem THEN stream.mem[pos] ELSE 0

ReadInt8At(stream, pos) ==
    LET b == ReadUint8At(stream, pos) IN IF b >= 128 THEN b - 256 ELSE b

ReadUint16At(stream, pos) ==
    ReadUint8At(stream, pos) + 256 * ReadUint8At(stream, pos + 1)

ReadInt16At(stream, pos) ==
    LET v == ReadUint16At(stream, pos) IN IF v >= 32768 THEN v - 65536 ELSE v

ReadInt32At(stream, pos) ==
    Int32OfBytes(ReadUint8At(stream, pos), ReadUint8At(stream, pos + 1),
                 ReadUint8At(stream, pos + 2), ReadUint8At(stream, pos + 3))

\* readUint32: a value of 2^31 or more does not fit TLC's integers
ReadUint32At(stream, pos) ==
    IF ReadUint8At(stream, pos + 3) >= 128 THEN OutOfBuffer
    ELSE ReadInt32At(stream, pos)

\* readByte(offset), readShort(offset), readInt(offset): seek, then read
ReadByte(stream, offset) == ReadInt8At(stream, Seek(stream, offset))

ReadShort(stream, offset) == ReadInt16At(stream, Seek(stream, offset))

ReadInt(stream, offset) == ReadInt32At(stream, Seek(stream, offset))

\* a typed array or string read from the buffer: its length and its
\* non-zero elements by index (from 0)
Elements(kind, len, data) ==
    [t |-> kind, len |-> len,
     data |-> [i \in { j \in DOMAIN data : data[j] # 0 } |-> data[i]]]

NullValue == [t |-> "null", len |-> 0, data |-> <<>>]

\* readUint8Array(length) at pos, and readString(length): one element a byte
ReadBytes(stream, pos, length, kind) ==
    IF length < 0 \/ pos + length > stream.len THEN OutOfBuffer
    ELSE Elements(kind, length,
                  [i \in { o - pos : o \in { q \in DOMAIN stream.mem :
                                               q >= pos /\ q < pos + length } }
                     |-> stream.mem[i + pos]])

\* readUCS2String(length) at pos: one element a little-endian 16-bit unit
ReadUnits(stream, pos, length, kind) ==
    IF length < 0 \/ pos + 2 * length > stream.len THEN OutOfBuffer
    ELSE Elements(kind, length,
                  [i \in { (o - pos) \div 2 : o \in { q \in DOMAIN stream.mem :
                                                       q >= pos /\ q < pos + 2 * length } }
                     |-> ReadUint16At(stream, pos + 2 * i)])

\* the elements of an array as a sequence
AsSeq(a) == [i \in 1..a.len |-> IF (i - 1) \in DOMAIN a.data THEN a.data[i - 1] ELSE 0]

\* JavaScript's % takes the sign of the dividend
JsRem(a, b) == IF a >= 0 THEN a % b ELSE -((-a) % b)

(***************************************************************************)
(* Constants of the format (MsgReader.CONST.MSG).                          *)
(***************************************************************************)
UNUSED_BLOCK == -1

END_OF_CHAIN == -2

S_BIG_BLOCK_SIZE == 512

L_BIG_BLOCK_SIZE == 4096

L_BIG_BLOCK_MARK == 12

SMALL_BLOCK_SIZE == 64

BIG_BLOCK_MIN_DOC_SIZE == 4096

PROPERTY_START_OFFSET == 48

BAT_START_OFFSET == 76

BAT_COUNT_OFFSET == 44

SBAT_START_OFFSET == 60

SBAT_COUNT_OFFSET == 64

XBAT_START_OFFSET == 68

XBAT_COUNT_OFFSET == 72

PROPERTY_SIZE == 128

NAME_SIZE_OFFSET == 64

TYPE_OFFSET == 66

PREVIOUS_PROPERTY_OFFSET == 68

NEXT_PROPERTY_OFFSET == 72

CHILD_PROPERTY_OFFSET == 76

START_BLOCK_OFFSET == 116

SIZE_OFFSET == 120

\* FILE_HEADER, through #uInt2int (data[i] << 24 >> 24: the bytes as int8)
UInt2int(data) == [i \in 1..Len(data) |-> IF data[i] >= 128 THEN data[i] - 256 ELSE data[i]]

FILE_HEADER == UInt2int(<<208, 207, 17, 224, 161, 177, 26, 225>>)

(***************************************************************************)
(* The header and the allocation tables.                                   *)
(***************************************************************************)
\* the comparison of #arraysEqual on the 8 bytes of only the first 4
IsMSGFileFirstHalf(stream) ==
    IF stream.len < Len(FILE_HEADER) THEN "RangeError"
    ELSE IF \A i \in 1..4 : FILE_HEADER[i] = ReadInt8At(stream, i - 1)
         THEN "yes" ELSE "no"

\* #isMSGFile: readInt8Array(8) at 0 throws when the buffer is shorter
IsMSGFile(stream) ==
    IF stream.len < Len(FILE_HEADER) THEN "RangeError"
    ELSE IF \A i \in 1..Len(FILE_HEADER) : FILE_HEADER[i] = ReadInt8At(stream, i - 1)
         THEN "yes" ELSE "no"

GetBlockOffsetAt(msgData, offset) == (offset + 1) * msgData.bigBlockSize

\* seek(getBlockOffsetAt(offset)), kept inside TLC's integers: a sector
\* past the buffer clamps to its end, undefined (NaN) and -1 give 0
SeekBlock(stream, msgData, offset) ==
    IF offset = Undefined \/ offset < 0 THEN 0
    ELSE IF offset + 1 > stream.len \div msgData.bigBlockSize THEN stream.len
    ELSE GetBlockOffsetAt(msgData, offset)

\* #getBlockAt(ds, msgData, offset)[index]
GetBlockAt(stream, msgData, offset, index) ==
    IF index = Undefined \/ index < 0 \/ index >= msgData.bigBlockLength
    THEN Undefined
    ELSE IF SeekBlock(stream, msgData, offset) + 4 * msgData.bigBlockLength > stream.len
    THEN OutOfBuffer
    ELSE ReadInt32At(stream, SeekBlock(stream, msgData, offset) + 4 * index)

\* blockOffsetData[i] of a JavaScript array
ArrayAt(array, i) ==
    IF i # Undefined /\ i \in 0..(Len(array) - 1) THEN array[i + 1] ELSE Undefined

GetNextBlockInner(stream, msgData, offset, blockOffsetData) ==
    IF offset = Undefined THEN Undefined
    ELSE LET currentBlock == offset \div msgData.bigBlockLength
             currentBlockIndex == JsRem(offset, msgData.bigBlockLength)
             startBlockOffset == ArrayAt(blockOffsetData, currentBlock)
         IN  GetBlockAt(stream, msgData, startBlockOffset, currentBlockIndex)

GetNextBlock(stream, msgData, offset) ==
    GetNextBlockInner(stream, msgData, offset, msgData.batData)

GetNextBlockSmall(stream, msgData, offset) ==
    GetNextBlockInner(stream, msgData, offset, msgData.sbatData)

\* (a reading of the marker where only 9 selects the small sectors)
HeaderDataSmallMark(stream) ==
    [bigBlockSize |-> IF ReadByte(stream, 30) = 9 THEN S_BIG_BLOCK_SIZE ELSE L_BIG_BLOCK_SIZE,
     bigBlockLength |-> 0, xBlockLength |-> 0, batCount |-> 0, propertyStart |-> 0,
     sbatStart |-> 0, sbatCount |-> 0, xbatStart |-> 0, xbatCount |-> 0,
     batData |-> <<>>, sbatData |-> <<>>, propertyData |-> <<>>]

HeaderData(stream) ==
    LET bigBlockSize == IF ReadByte(stream, 30) = L_BIG_BLOCK_MARK
                        THEN L_BIG_BLOCK_SIZE ELSE S_BIG_BLOCK_SIZE
    IN  [bigBlockSize |-> bigBlockSize,
         bigBlockLength |-> bigBlockSize \div 4,
         xBlockLength |-> bigBlockSize \div 4 - 1,
         batCount |-> ReadInt(stream, BAT_COUNT_OFFSET),
         propertyStart |-> ReadInt(stream, PROPERTY_START_OFFSET),
         sbatStart |-> ReadInt(stream, SBAT_START_OFFSET),
         sbatCount |-> ReadInt(stream, SBAT_COUNT_OFFSET),
         xbatStart |-> ReadInt(stream, XBAT_START_OFFSET),
         xbatCount |-> ReadInt(stream, XBAT_COUNT_OFFSET),
         batData |-> <<>>, sbatData |-> <<>>, propertyData |-> <<>>]

BatCountInHeader(msgData) ==
    LET maxBatsInHeader == (S_BIG_BLOCK_SIZE - BAT_START_OFFSET) \div 4
    IN  Min(msgData.batCount, maxBatsInHeader)

BatData(stream, msgData) ==
    [i \in 1..BatCountInHeader(msgData) |->
        ReadInt32At(stream, BAT_START_OFFSET + 4 * (i - 1))]

RECURSIVE SbatLoop(_, _, _, _, _)
SbatLoop(stream, msgData, i, startIndex, result) ==
    IF i < msgData.sbatCount /\ startIndex # END_OF_CHAIN
    THEN SbatLoop(stream, msgData, i + 1, GetNextBlock(stream, msgData, startIndex),
                  Append(result, startIndex))
    ELSE result

SbatData(stream, msgData) == SbatLoop(stream, msgData, 0, msgData.sbatStart, <<>>)

\* the inner loop of #xbatData over one DIFAT sector
RECURSIVE XbatBlock(_, _, _, _, _, _)
XbatBlock(stream, msgData, nextBlockAt, j, blocksToProcess, batData) ==
    IF j < blocksToProcess
    THEN LET blockStartAt == GetBlockAt(stream, msgData, nextBlockAt, j)
         IN  IF blockStartAt = UNUSED_BLOCK \/ blockStartAt = END_OF_CHAIN
             THEN batData
             ELSE XbatBlock(stream, msgData, nextBlockAt, j + 1, blocksToProcess,
                            Append(batData, blockStartAt))
    ELSE batData

RECURSIVE XbatLoop(_, _, _, _, _, _)
XbatLoop(stream, msgData, i, nextBlockAt, remainingBlocks, batData) ==
    IF i < msgData.xbatCount
    THEN LET blocksToProcess == Min(remainingBlocks, msgData.xBlockLength)
         IN  XbatLoop(stream, msgData, i + 1,
                      GetBlockAt(stream, msgData, nextBlockAt, msgData.xBlockLength),
                      remainingBlocks - blocksToProcess,
                      XbatBlock(stream, msgData, nextBlockAt, 0, blocksToProcess, batData))
    ELSE batData

\* #xbatData as a machine: x holds the locals of the function and batData;
\* block is the sector xBatBlock was read from, inner tells that the inner
\* loop is running, sentinel that an UNUSED or END_OF_CHAIN entry was read
XbatStart(msgData) ==
    [i |-> 0, j |-> 0, nextBlockAt |-> msgData.xbatStart, block |-> msgData.xbatStart,
     blocksToProcess |-> 0,
     remainingBlocks |-> msgData.batCount - BatCountInHeader(msgData),
     batData |-> msgData.batData, inner |-> FALSE, sentinel |-> FALSE]

\* (a head that takes the whole DIFAT sector, whatever count remains)
XbatEnterWholeSector(stream, msgData, x) ==
    [x EXCEPT !.block = x.nextBlockAt,
              !.nextBlockAt = GetBlockAt(stream, msgData, x.nextBlockAt, msgData.xBlockLength),
              !.blocksToProcess = msgData.xBlockLength,
              !.j = 0, !.inner = TRUE]

\* the head of an iteration of the outer loop
XbatEnter(stream, msgData, x) ==
    [x EXCEPT !.block = x.nextBlockAt,
              !.nextBlockAt = GetBlockAt(stream, msgData, x.nextBlockAt, msgData.xBlockLength),
              !.blocksToProcess = Min(x.remainingBlocks, msgData.xBlockLength),
              !.j = 0, !.inner = TRUE]

\* the end of an iteration of the outer loop
XbatLeave(x) ==
    [x EXCEPT !.remainingBlocks = @ - x.blocksToProcess, !.i = @ + 1, !.inner = FALSE]

\* an iteration of the inner loop; the break leaves the inner loop only
XbatInner(stream, msgData, x) ==
    LET blockStartAt == GetBlockAt(stream, msgData, x.block, x.j)
    IN  IF blockStartAt = UNUSED_BLOCK \/ blockStartAt = END_OF_CHAIN
        THEN XbatLeave([x EXCEPT !.sentinel = TRUE])
        ELSE [x EXCEPT !.batData = Append(@, blockStartAt), !.j = @ + 1]

\* #xbatData: the regular table with the DIFAT entries appended
XbatData(stream, msgData) ==
    XbatLoop(stream, msgData, 0, msgData.xbatStart,
             msgData.batCount - BatCountInHeader(msgData), msgData.batData)


(***************************************************************************)
(* Directory entries.  propertyData is the array props of the code; slot i *)
(* of the array is props[i + 1] here.  An absent slot (null, or undefined  *)
(* for an index outside the array) is NullProp.                            *)
(***************************************************************************)
NO_INDEX == -1

TYPE_DIRECTORY == 1

TYPE_DOCUMENT == 2

TYPE_ROOT == 5

NullProp == [isNull |-> TRUE]

\* the object #convertProperty builds; children is undefined until
\* #createPropertyHierarchy assigns it (hasChildren)
Property(index, type, name, prev, next, child, startBlock, sizeBlock) ==
    [isNull |-> FALSE, index |-> index, type |-> type, name |-> name,
     previousProperty |-> prev, nextProperty |-> next, childProperty |-> child,
     startBlock |-> startBlock, sizeBlock |-> sizeBlock,
     hasChildren |-> FALSE, children |-> <<>>]

\* props[i]
PropAt(props, i) ==
    IF i \in 0..(Len(props) - 1) THEN props[i + 1] ELSE NullProp

(***************************************************************************)
(* #createPropertyHierarchy as a machine: props, and the call stack, one   *)
(* frame per active call: node is nodeProperty's index, queue is the local *)
(* array "children", pending is the entry whose recursive call is running  *)
(* (its previous/next pointers are pushed when that call returns).         *)
(***************************************************************************)
NoPending == -1

\* the two pushes that end an iteration of the while loop
\* (a walk that follows the next pointers only, as along a linked list)
PushSiblingsNextOnly(queue, current) ==
    IF current.nextProperty # NO_INDEX
    THEN Append(queue, current.nextProperty) ELSE queue

PushSiblings(queue, current) ==
    LET q1 == IF current.previousProperty # NO_INDEX
              THEN Append(queue, current.previousProperty) ELSE queue
    IN  IF current.nextProperty # NO_INDEX
        THEN Append(q1, current.nextProperty) ELSE q1

\* (entering the function without the early return on NO_INDEX)
HierCallAlways(h, node) ==
    IF PropAt(h.props, node).isNull
    THEN [h EXCEPT !.err = "TypeError"]
    ELSE [h EXCEPT !.props[node + 1].hasChildren = TRUE,
                   !.props[node + 1].children = <<>>,
                   !.stack = Append(@, [node |-> node,
                                        queue |-> <<h.props[node + 1].childProperty>>,
                                        pending |-> NoPending])]

\* entering the function for the entry at index node
HierCall(h, node) ==
    IF PropAt(h.props, node).isNull
    THEN [h EXCEPT !.err = "TypeError"]
    ELSE IF h.props[node + 1].childProperty = NO_INDEX
    THEN h
    ELSE [h EXCEPT !.props[node + 1].hasChildren = TRUE,
                   !.props[node + 1].children = <<>>,
                   !.stack = Append(@, [node |-> node,
                                        queue |-> <<h.props[node + 1].childProperty>>,
                                        pending |-> NoPending])]

\* one iteration of the while loop of the running call
HierIterate(h) ==
    LET d == Len(h.stack)
        top == h.stack[d]
        currentIndex == Head(top.queue)
        current == PropAt(h.props, currentIndex)
        popped == [h EXCEPT !.stack[d].queue = Tail(top.queue), !.steps = @ + 1]
    IN  IF current.isNull THEN popped
        ELSE LET pushed == [popped EXCEPT
                              !.props[top.node + 1].children = Append(@, currentIndex)]
                 cur == pushed.props[currentIndex + 1]
             IN  IF cur.type = TYPE_DIRECTORY /\ cur.childProperty # NO_INDEX
                 THEN HierCall([pushed EXCEPT !.stack[d].pending = currentIndex],
                               currentIndex)
                 ELSE [pushed EXCEPT
                         !.stack[d].queue = PushSiblings(@, cur)]

\* the while loop of the running call ends: return to the caller, which
\* pushes the pointers of the entry it was recursing into
HierReturn(h) ==
    LET d == Len(h.stack)
        rest == SubSeq(h.stack, 1, d - 1)
    IN  IF d = 1 THEN [h EXCEPT !.stack = <<>>, !.steps = @ + 1]
        ELSE LET caller == rest[d - 1]
                 cur == h.props[caller.pending + 1]
             IN  [h EXCEPT !.steps = @ + 1,
                           !.stack = [rest EXCEPT ![d - 1].queue = PushSiblings(@, cur),
                                                  ![d - 1].pending = NoPending]]

HierStart(props) ==
    HierCall([props |-> props, stack |-> <<>>, steps |-> 0, err |-> ""], 0)

HierStep(h) ==
    IF h.stack[Len(h.stack)].queue = <<>> THEN HierReturn(h) ELSE HierIterate(h)

\* n steps of the call #createPropertyHierarchy(props, props[0]) from h on,
\* the first half of them and then the rest; a call that has returned or
\* thrown makes no further step
RECURSIVE HierRun(_, _)
HierRun(h, n) ==
    IF n <= 1
    THEN (IF h.stack = <<>> \/ h.err # "" THEN h ELSE HierStep(h))
    ELSE Bind(HierRun(h, n \div 2), LAMBDA half : HierRun(half, n - n \div 2))

(***************************************************************************)
(* The flat directory parse (#propertyData and what it calls).             *)
(***************************************************************************)
\* str.replace(/\0/g, ''): the code units of a string without the zeros
DropZeros(units) == SelectSeq(units, LAMBDA u : u # 0)

\* #convertName: an odd nameLength makes readUint16Array copy half a unit
\* past its array, a RangeError like a read outside the buffer
ConvertName(stream, offset) ==
    LET nameLength == ReadShort(stream, offset + NAME_SIZE_OFFSET)
    IN  IF nameLength < 1 THEN <<>>
        ELSE IF nameLength % 2 # 0 THEN OutOfBuffer
        ELSE DropZeros(AsSeq(ReadUnits(stream, Seek(stream, offset),
                                       nameLength \div 2, "unicode")))

ConvertProperty(stream, index, offset) ==
    Property(index,
             ReadByte(stream, offset + TYPE_OFFSET),
             ConvertName(stream, offset),
             ReadInt(stream, offset + PREVIOUS_PROPERTY_OFFSET),
             ReadInt(stream, offset + NEXT_PROPERTY_OFFSET),
             ReadInt(stream, offset + CHILD_PROPERTY_OFFSET),
             ReadInt(stream, offset + START_BLOCK_OFFSET),
             ReadInt(stream, offset + SIZE_OFFSET))

\* (a loop that adds nothing to props for a record of another type)
RECURSIVE ConvertBlockFromSkipping(_, _, _, _, _)
ConvertBlockFromSkipping(stream, msgData, i, propertyOffset, props) ==
    IF i < msgData.bigBlockSize \div PROPERTY_SIZE
    THEN IF ReadByte(stream, propertyOffset + TYPE_OFFSET)
                \in {TYPE_ROOT, TYPE_DIRECTORY, TYPE_DOCUMENT}
         THEN ConvertBlockFromSkipping(stream, msgData, i + 1, propertyOffset + PROPERTY_SIZE,
                  Append(props, ConvertProperty(stream, Len(props), propertyOffset)))
         ELSE ConvertBlockFromSkipping(stream, msgData, i + 1,
                                       propertyOffset + PROPERTY_SIZE, props)
    ELSE props

\* the loop of #convertBlockToProperties from record i on; propertyOffset is
\* NaN (Undefined) when the sector number is undefined
RECURSIVE ConvertBlockFrom(_, _, _, _, _)
ConvertBlockFrom(stream, msgData, i, propertyOffset, props) ==
    IF i < msgData.bigBlockSize \div PROPERTY_SIZE
    THEN LET typeAt == IF propertyOffset = Undefined THEN Undefined
                       ELSE propertyOffset + TYPE_OFFSET
             propertyType == ReadByte(stream, typeAt)
             nextOffset == IF propertyOffset = Undefined THEN Undefined
                           ELSE propertyOffset + PROPERTY_SIZE
         IN  IF propertyType \in {TYPE_ROOT, TYPE_DIRECTORY, TYPE_DOCUMENT}
             THEN ConvertBlockFrom(stream, msgData, i + 1, nextOffset,
                      Append(props, ConvertProperty(stream, Len(props), propertyOffset)))
             ELSE ConvertBlockFrom(stream, msgData, i + 1, nextOffset,
                      Append(props, NullProp))
    ELSE props

ConvertBlockToProperties(stream, msgData, propertyBlockOffset, props) ==
    ConvertBlockFrom(stream, msgData, 0,
                     IF propertyBlockOffset = Undefined THEN Undefined
                     ELSE GetBlockOffsetAt(msgData, propertyBlockOffset),
                     props)

\* the while loop of #propertyData as a machine: one iteration per step
PropertyDataStart(msgData) ==
    [currentOffset |-> msgData.propertyStart, props |-> <<>>, steps |-> 0]

PropertyDataStep(stream, msgData, w) ==
    [currentOffset |-> GetNextBlock(stream, msgData, w.currentOffset),
     props |-> ConvertBlockToProperties(stream, msgData, w.currentOffset, w.props),
     steps |-> w.steps + 1]

\* n iterations of the while loop from w on, the first half of them and
\* then the rest; a loop that has ended makes no further iteration
RECURSIVE PropertyDataLoop(_, _, _, _)
PropertyDataLoop(stream, msgData, w, n) ==
    IF n <= 1
    THEN (IF w.currentOffset = END_OF_CHAIN THEN w
          ELSE PropertyDataStep(stream, msgData, w))
    ELSE Bind(PropertyDataLoop(stream, msgData, w, n \div 2),
              LAMBDA half : PropertyDataLoop(stream, msgData, half, n - n \div 2))

\* the loops of one parse are followed for MaxLoop iterations; a loop still
\* running then is reported as err = "hang" (the code would not return)
MaxLoop == 40

\* the flat entries of the directory chain
PropertyDataFlat(stream, msgData) ==
    Bind(PropertyDataLoop(stream, msgData, PropertyDataStart(msgData), MaxLoop),
         LAMBDA w : [err |-> IF w.currentOffset = END_OF_CHAIN THEN "" ELSE "hang",
                     props |-> w.props])

\* the hierarchy over the flat entries
PropertyDataHierarchy(flat) ==
    Bind(HierRun(HierStart(flat.props), MaxLoop),
         LAMBDA h : [err |-> IF h.err # "" THEN h.err
                             ELSE IF h.stack # <<>> THEN "hang" ELSE "",
                     props |-> h.props])

\* #propertyData: the entries with their hierarchy
PropertyData(stream, msgData) ==
    Bind(PropertyDataFlat(stream, msgData),
         LAMBDA flat : IF flat.err # "" THEN flat ELSE PropertyDataHierarchy(flat))


(***************************************************************************)
(* The Stream Resolver (#getFieldValue and extractorFieldValue).  A result *)
(* is [err, v]: err is "" and v the value, or err names what stopped the   *)
(* call ("hang": the loop would not end).                                  *)
(***************************************************************************)
Ok(v) == [err |-> "", v |-> v]

Failed(e) == [err |-> e, v |-> NullValue]

\* the dataType functions: seek(pos), then read blockSize bytes as the type
ExtractAt(stream, pos, blockSize, typeMapped) ==
    CASE typeMapped = "string" -> ReadBytes(stream, Seek(stream, pos), blockSize, "string")
      [] typeMapped = "unicode" /\ blockSize % 2 # 0 -> OutOfBuffer
      [] typeMapped = "unicode" /\ blockSize % 2 = 0 ->
            ReadUnits(stream, Seek(stream, pos), blockSize \div 2, "unicode")
      [] OTHER -> ReadBytes(stream, Seek(stream, pos), blockSize, "binary")

\* the while loop of #getChainByBlockSmall as a machine
ChainSmallStart(fieldProperty) ==
    [nextBlockSmall |-> fieldProperty.startBlock, blockChain |-> <<>>]

ChainSmallStep(stream, msgData, c) ==
    [nextBlockSmall |-> GetNextBlockSmall(stream, msgData, c.nextBlockSmall),
     blockChain |-> Append(c.blockChain, c.nextBlockSmall)]

\* n iterations of the while loop from c on, the first half of them and
\* then the rest; a loop that has ended makes no further iteration
RECURSIVE ChainSmallLoop(_, _, _, _)
ChainSmallLoop(stream, msgData, c, n) ==
    IF n <= 1
    THEN (IF c.nextBlockSmall = END_OF_CHAIN THEN c
          ELSE ChainSmallStep(stream, msgData, c))
    ELSE Bind(ChainSmallLoop(stream, msgData, c, n \div 2),
              LAMBDA half : ChainSmallLoop(stream, msgData, half, n - n \div 2))

GetChainByBlockSmall(stream, msgData, fieldProperty) ==
    Bind(ChainSmallLoop(stream, msgData, ChainSmallStart(fieldProperty), MaxLoop),
         LAMBDA c : [err |-> IF c.nextBlockSmall = END_OF_CHAIN THEN "" ELSE "hang",
                     chain |-> c.blockChain])

\* nextBlock after i steps of the regular chain
RECURSIVE FollowChain(_, _, _, _)
FollowChain(stream, msgData, nextBlock, i) ==
    IF i <= 0 THEN nextBlock
    ELSE FollowChain(stream, msgData, GetNextBlock(stream, msgData, nextBlock), i - 1)

\* the file position #readDataByBlockSmall reads mini-sector startBlock at
SmallBlockPosition(stream, msgData, startBlock) ==
    IF startBlock = Undefined THEN Undefined
    ELSE LET byteOffset == startBlock * SMALL_BLOCK_SIZE
             bigBlockNumber == byteOffset \div msgData.bigBlockSize
             bigBlockOffset == JsRem(byteOffset, msgData.bigBlockSize)
             rootProp == msgData.propertyData[1]
             nextBlock == FollowChain(stream, msgData, rootProp.startBlock, bigBlockNumber)
         IN  IF nextBlock = Undefined THEN Undefined
             ELSE GetBlockOffsetAt(msgData, nextBlock) + bigBlockOffset

ReadDataByBlockSmall(stream, msgData, startBlock, blockSize, typeMapped) ==
    ExtractAt(stream, SmallBlockPosition(stream, msgData, startBlock), blockSize, typeMapped)

\* what iteration i of the copy loop writes to resultData: the bytes of
\* mini-sector chain[i] at i * SMALL_BLOCK_SIZE; a write past sizeBlock is
\* dropped
ChainBlock(stream, msgData, fieldProperty, chain, i) ==
    Bind(ReadDataByBlockSmall(stream, msgData, chain[i], SMALL_BLOCK_SIZE, "binary"),
         LAMBDA data :
            LET base == (i - 1) * SMALL_BLOCK_SIZE
            IN  [o \in { base + k : k \in DOMAIN data.data } \cap
                        0..(fieldProperty.sizeBlock - 1) |-> data.data[o - base]])

\* resultData after iterations i .. j of the copy loop, the first half of
\* them and then the rest (the iterations write disjoint ranges)
RECURSIVE ChainBytes(_, _, _, _, _, _)
ChainBytes(stream, msgData, fieldProperty, chain, i, j) ==
    IF i > j THEN <<>>
    ELSE IF i = j THEN ChainBlock(stream, msgData, fieldProperty, chain, i)
    ELSE ChainBytes(stream, msgData, fieldProperty, chain, i, (i + j) \div 2) @@
         ChainBytes(stream, msgData, fieldProperty, chain, (i + j) \div 2 + 1, j)

ReadChainDataByBlockSmall(stream, msgData, fieldProperty, chain, typeMapped) ==
    IF fieldProperty.sizeBlock < 0 THEN OutOfBuffer
    ELSE LET localDs == [len |-> fieldProperty.sizeBlock,
                         mem |-> ChainBytes(stream, msgData, fieldProperty, chain, 1,
                                           Len(chain))]
         IN  ExtractAt(localDs, 0, fieldProperty.sizeBlock, typeMapped)

ExtractDataViaSbat(stream, msgData, fieldProperty, typeMapped) ==
    Bind(GetChainByBlockSmall(stream, msgData, fieldProperty),
         LAMBDA c :
            CASE c.err # "" -> Failed(c.err)
              [] c.err = "" /\ Len(c.chain) = 1 ->
                    Ok(ReadDataByBlockSmall(stream, msgData, fieldProperty.startBlock,
                                            fieldProperty.sizeBlock, typeMapped))
              [] c.err = "" /\ Len(c.chain) > 1 ->
                    Ok(ReadChainDataByBlockSmall(stream, msgData, fieldProperty, c.chain,
                                                 typeMapped))
              [] OTHER -> Ok(NullValue))

ExtractDataViaBat(stream, msgData, fieldProperty, typeMapped) ==
    Ok(ExtractAt(stream, GetBlockOffsetAt(msgData, fieldProperty.startBlock),
                 fieldProperty.sizeBlock, typeMapped))

\* (a threshold that also sends a stream of exactly 4096 bytes to the mini path)
ValueExtractorInclusive(fieldProperty) ==
    IF fieldProperty.sizeBlock <= BIG_BLOCK_MIN_DOC_SIZE THEN "sbat" ELSE "bat"

\* the choice of valueExtractor
ValueExtractor(fieldProperty) ==
    IF fieldProperty.sizeBlock < BIG_BLOCK_MIN_DOC_SIZE THEN "sbat" ELSE "bat"

\* TYPE_MAPPING's values; typeMapped is "" when the lookup gave undefined
IsDataType(typeMapped) == typeMapped \in {"string", "unicode", "binary"}

GetFieldValue(stream, msgData, fieldProperty, typeMapped) ==
    CASE ~IsDataType(typeMapped) -> Ok(NullValue)
      [] IsDataType(typeMapped) /\ ValueExtractor(fieldProperty) = "sbat" ->
            ExtractDataViaSbat(stream, msgData, fieldProperty, typeMapped)
      [] OTHER -> ExtractDataViaBat(stream, msgData, fieldProperty, typeMapped)


(***************************************************************************)
(* Names and MAPI tables.  A name is the sequence of its UTF-16 code units.*)
(***************************************************************************)
\* (a prefix no storage of a message has: '__attach_version2.0')
PREFIX_ATTACHMENT_V2 ==
    <<95, 95, 97, 116, 116, 97, 99, 104, 95, 118, 101, 114, 115, 105, 111, 110, 50, 46, 48>>

PREFIX_ATTACHMENT ==   \* '__attach_version1.0'
    <<95, 95, 97, 116, 116, 97, 99, 104, 95, 118, 101, 114, 115, 105, 111, 110, 49, 46, 48>>

PREFIX_RECIPIENT ==    \* '__recip_version1.0'
    <<95, 95, 114, 101, 99, 105, 112, 95, 118, 101, 114, 115, 105, 111, 110, 49, 46, 48>>

PREFIX_DOCUMENT ==     \* '__substg1.'
    <<95, 95, 115, 117, 98, 115, 116, 103, 49, 46>>

PROPERTIES_STREAM ==   \* '__properties_version1.0'
    <<95, 95, 112, 114, 111, 112, 101, 114, 116, 105, 101, 115, 95, 118, 101, 114,
      115, 105, 111, 110, 49, 46, 48>>

ROOT_WORD == <<114, 111, 111, 116>>                 \* "root"

ATTACHMENT_DATA == <<51, 55, 48, 49>>               \* CLASS_MAPPING: '3701'

INNER_MSG == <<48, 48, 48, 100>>                    \* DIR_TYPE: '000d'

\* String.prototype.toLowerCase on the letters A..Z
ToLowerCase(units) ==
    [i \in 1..Len(units) |-> IF units[i] >= 65 /\ units[i] <= 90 THEN units[i] + 32
                             ELSE units[i]]

\* String.prototype.substring(from, to) for 0 <= from <= to
Substring(units, from, to) ==
    SubSeq(units, Min(from, Len(units)) + 1, Min(to, Len(units)))

\* name.indexOf(prefix) === 0
StartsWith(units, prefix) ==
    Len(units) >= Len(prefix) /\ SubSeq(units, 1, Len(prefix)) = prefix

\* name.indexOf(part) !== -1
Contains(units, part) ==
    \E i \in 0..(Len(units) - Len(part)) : SubSeq(units, i + 1, i + Len(part)) = part

\* Number.prototype.toString(16).padStart(4, '0') of a 16-bit number
HexUnit(d) == IF d < 10 THEN 48 + d ELSE 87 + d

Hex4(n) == <<HexUnit(n \div 4096), HexUnit((n \div 256) % 16),
             HexUnit((n \div 16) % 16), HexUnit(n % 16)>>

\* the entries of MAPI_PROPERTIES the buffers drawn use, by the four
\* characters after '0x'
MAPI_PROPERTIES ==
    (<<48, 48, 48, 48>> :> "Null") @@                    \* "0x0000"
    (<<48, 48, 49, 55>> :> "Importance") @@              \* "0x0017"
    (<<48, 48, 51, 55>> :> "Subject") @@                 \* "0x0037"
    (<<48, 48, 51, 57>> :> "ClientSubmitTime") @@        \* "0x0039"
    (<<48, 48, 55, 100>> :> "TransportMessageHeaders") @@ \* "0x007d"
    (<<48, 101, 48, 55>> :> "MessageFlags") @@           \* "0x0e07"
    (<<49, 48, 48, 48>> :> "Body") @@                    \* "0x1000"
    (<<51, 48, 48, 49>> :> "DisplayName") @@             \* "0x3001"
    (<<51, 55, 48, 49>> :> "AttachDataObj") @@           \* "0x3701"
    (<<51, 55, 48, 51>> :> "AttachExtension") @@         \* "0x3703"
    (<<51, 55, 48, 55>> :> "AttachLongFileName") @@      \* "0x3707"
    (<<51, 57, 102, 101>> :> "SmtpAddress")              \* "0x39fe"

\* keys that MAPI_PROPERTIES does not have
NOT_MAPI == { <<102, 102, 102, 102>>,                   \* "0xffff"
              <<102, 102, 102, 101>> }                   \* "0xfffe"

\* #getMapiFieldName: the canonical name, or "" for null
GetMapiFieldName(fieldClass) ==
    LET key == ToLowerCase(fieldClass)
    IN  IF key \in DOMAIN MAPI_PROPERTIES THEN MAPI_PROPERTIES[key]
        ELSE IF Len(key) # 4 \/ key \in NOT_MAPI THEN ""
        ELSE OutOfBuffer

\* TYPE_MAPPING[fieldType], or "" for undefined
TYPE_MAPPING(fieldType) ==
    IF fieldType = <<48, 48, 49, 101>> THEN "string"        \* '001e'
    ELSE IF fieldType = <<48, 48, 49, 102>> THEN "unicode"  \* '001f'
    ELSE IF fieldType = <<48, 49, 48, 50>> THEN "binary"    \* '0102'
    ELSE ""

\* (the type characters as they are written in the name, without toLowerCase)
GetFieldTypeAsWritten(fieldProperty) ==
    Substring(Substring(fieldProperty.name, 12, Len(fieldProperty.name)), 4, 8)

GetFieldType(fieldProperty) ==
    Substring(ToLowerCase(Substring(fieldProperty.name, 12, Len(fieldProperty.name))), 4, 8)

\* a key of a bag: a canonical name, or a name built from a prefix and four
\* characters ('unknown_' + class, '_' + type), with the collision suffix
\* '-' + n (n = 0: no suffix)
Key(name, cls, n) == [name |-> name, cls |-> cls, n |-> n]

\* obj[key] = value
Put(obj, key, value) ==
    [k \in DOMAIN obj \cup {key} |-> IF k = key THEN value ELSE obj[k]]


(***************************************************************************)
(* The root property stream (#readRootProperties, #readFieldData,          *)
(* #uint8ArrayToInt).                                                      *)
(***************************************************************************)
ByteOf(bin, i) == IF i \in DOMAIN bin.data THEN bin.data[i] ELSE 0

\* DataView.getUint32 little-endian over bin at pos (below 2^31)
Uint32Of(bin, pos) ==
    IF ByteOf(bin, pos + 3) >= 128 THEN OutOfBuffer
    ELSE Int32OfBytes(ByteOf(bin, pos), ByteOf(bin, pos + 1),
                      ByteOf(bin, pos + 2), ByteOf(bin, pos + 3))

\* #uint8ArrayToInt(binData, size, true): the DataView getters are called
\* without the littleEndian argument, so they read big-endian
Uint8ArrayToInt(b, size) ==
    IF size = 16 THEN [k |-> "number",
                       v |-> LET w == 256 * b[1] + b[2]
                             IN  IF w >= 32768 THEN w - 65536 ELSE w]
    ELSE IF size = 32 THEN [k |-> "number", v |-> Int32OfBytes(b[4], b[3], b[2], b[1])]
    ELSE LET high == Int32OfBytes(b[4], b[3], b[2], b[1])
             low == BigMake(FALSE, MagFromBytesLE(<<b[8], b[7], b[6], b[5]>>))
         IN  [k |-> "bigint", v |-> BigAdd(low, BigShl32(BigFromInt(high)))]

\* x !== 0 of JavaScript: a BigInt is never strictly equal to a Number
StrictNotEqualZero(x) == x.k # "number" \/ x.v # 0

ReadFieldData(ftype, b) ==
    IF ftype = <<48, 48, 52, 48>>                                     \* '0040'
    THEN [k |-> "date", v |-> ConvertFiletimeToDateTime(b)]
    ELSE IF ftype = <<48, 48, 48, 50>> THEN Uint8ArrayToInt(b, 16)    \* '0002'
    ELSE IF ftype = <<48, 48, 48, 51>> THEN Uint8ArrayToInt(b, 32)    \* '0003'
    ELSE IF ftype = <<48, 48, 49, 52>> THEN Uint8ArrayToInt(b, 64)    \* '0014'
    ELSE IF ftype = <<48, 48, 48, 98>>                                \* '000b'
    THEN [k |-> "boolean", v |-> StrictNotEqualZero(Uint8ArrayToInt(b, 64))]
    ELSE [k |-> "null", v |-> 0]

\* n.toString(16) as hex digits, most significant first
RECURSIVE HexDigits(_)
HexDigits(n) == IF n < 16 THEN <<n>> ELSE Append(HexDigits(n \div 16), n % 16)

\* flags & mask, flags being the string readUint32().toString(16): the
\* string is read back as a decimal literal, and is NaN (0 under &) when it
\* has a letter; mask is a single bit
RECURSIVE DecimalOf(_)
DecimalOf(digits) ==
    IF digits = <<>> THEN 0
    ELSE 10 * DecimalOf(SubSeq(digits, 1, Len(digits) - 1)) + digits[Len(digits)]

FlagsAnd(flagsNumber, mask) ==
    LET digits == HexDigits(flagsNumber)
        letters == { i \in 1..Len(digits) : digits[i] >= 10 }
    IN  IF letters = {} THEN (DecimalOf(digits) \div mask) % 2 = 1
        ELSE IF \A i \in letters : digits[i] # 14 THEN FALSE
        ELSE IF Cardinality(letters) = 1 /\ 1 \notin letters /\ Len(digits) \notin letters
        THEN OutOfBuffer      \* an exponent literal such as "1e5"
        ELSE FALSE

NoProperties == [absent |-> TRUE]

\* the records from position pos on
RECURSIVE RootRecords(_, _, _)
RootRecords(bin, pos, values) ==
    IF pos >= bin.len THEN [err |-> "", recs |-> values]
    ELSE IF pos + 16 > bin.len THEN [err |-> "RangeError", recs |-> values]
    ELSE LET fieldType == ByteOf(bin, pos) + 256 * ByteOf(bin, pos + 1)
             fieldClass == ByteOf(bin, pos + 2) + 256 * ByteOf(bin, pos + 3)
             flags == Uint32Of(bin, pos + 4)
             mapi == GetMapiFieldName(Hex4(fieldClass))
             typeStr == Hex4(fieldType)
             binData == [i \in 1..8 |-> ByteOf(bin, pos + 7 + i)]
             fieldName == IF mapi # "" THEN Key(mapi, <<>>, 0) ELSE Key("_", typeStr, 0)
             property == [type |-> fieldType, typeStr |-> typeStr,
                          flags |-> [mandatory |-> FlagsAnd(flags, 1),
                                     readable |-> FlagsAnd(flags, 2),
                                     writeable |-> FlagsAnd(flags, 4)],
                          binData |-> binData,
                          data |-> ReadFieldData(typeStr, binData)]
         IN  Bind(Put(values, fieldName, property),
                  LAMBDA next : RootRecords(bin, pos + 16, next))

\* (a reader that checks only the first reserved run)
ReservedRunsFirstOnly(bin) == {0..7}

\* the two reserved runs of the header, in reading order
ReservedRuns(bin) == {0..7, 24..31}

ReadRootProperties(bin) ==
    LET bad(i) == \E run \in ReservedRuns(bin) : i \in run /\ ByteOf(bin, i) # 0
        stops == { i \in 0..31 : i >= bin.len \/ bad(i) }
        first == CHOOSE i \in stops : \A j \in stops : i <= j
    IN  IF bin.t = "null" THEN [err |-> "TypeError", props |-> NoProperties]
        ELSE IF stops # {}
        THEN [err |-> IF first >= bin.len THEN "RangeError"
                      ELSE "Error: invalid properties header",
              props |-> NoProperties]
        ELSE Bind(RootRecords(bin, 32, <<>>),
                  LAMBDA r :
                     IF r.err # "" THEN [err |-> r.err, props |-> NoProperties]
                     ELSE [err |-> "",
                           props |-> [header |-> [nextRecipientId |-> Uint32Of(bin, 8),
                                                  nextAttachmentId |-> Uint32Of(bin, 12),
                                                  recipientCount |-> Uint32Of(bin, 16),
                                                  attachmentCount |-> Uint32Of(bin, 20)],
                                      recs |-> r.recs]])


(***************************************************************************)
(* Field extraction (#fieldsData and what it calls).  A bag is a record:   *)
(* vals holds the keys written from streams, the other fields are the keys *)
(* the code writes by name.  Only the top-level bag has the arrays         *)
(* attachments and recipients (top); err is set when the call threw.       *)
(***************************************************************************)
NewBag(top) ==
    [vals |-> <<>>, dataId |-> Undefined, contentLength |-> Undefined,
     innerMsgContent |-> FALSE, top |-> top, attachments |-> <<>>,
     recipients |-> <<>>, properties |-> NoProperties, err |-> ""]

\* the truth value JavaScript gives fields[key]: a missing key, null and
\* the empty string are falsy, a Uint8Array is truthy
Truthy(fields, key) ==
    /\ key \in DOMAIN fields.vals
    /\ LET v == fields.vals[key]
       IN  v.t = "binary" \/ (v.t \in {"string", "unicode"} /\ v.len > 0)

\* the condition of the while loop that looks for a free key
KeyTaken(fields, key) == Truthy(fields, key)

RECURSIVE FreeOffset(_, _, _, _)
FreeOffset(fields, name, cls, offset) ==
    IF KeyTaken(fields, Key(name, cls, IF offset = 1 THEN 0 ELSE offset))
    THEN FreeOffset(fields, name, cls, offset + 1)
    ELSE IF offset = 1 THEN 0 ELSE offset

\* fieldName is the key with its suffix: only the bare name 'Body' is 'Body'
IsAddPropertyValue(fieldName, fieldTypeMapped) ==
    ~(fieldName.name = "Body" /\ fieldName.n = 0) \/ fieldTypeMapped # "binary"

\* #convertUint8ArrayToString: the bytes decoded as UTF-8; the buffers
\* drawn hold 7-bit bytes, which decode to themselves
ApplyValueConverter(fieldName, fieldTypeMapped, fieldValue) ==
    IF fieldTypeMapped = "binary" /\ fieldName.name = "BodyHtml" /\ fieldName.n = 0
    THEN [fieldValue EXCEPT !.t = "string"]
    ELSE fieldValue

FieldsDataDocument(stream, msgData, documentProperty, fields) ==
    LET value == ToLowerCase(Substring(documentProperty.name, 12,
                                       Len(documentProperty.name)))
        fieldClass == Substring(value, 0, 4)
        fieldType == Substring(value, 4, 8)
        mapi == GetMapiFieldName(fieldClass)
        name == IF mapi # "" THEN mapi ELSE "unknown_"
        cls == IF mapi # "" THEN <<>> ELSE fieldClass
        fieldName == Key(name, cls, FreeOffset(fields, name, cls, 1))
        fieldTypeMapped == TYPE_MAPPING(fieldType)
        stored(fieldValue) ==
            IF IsAddPropertyValue(fieldName, fieldTypeMapped)
            THEN [fields EXCEPT !.vals = Put(@, fieldName,
                      ApplyValueConverter(fieldName, fieldTypeMapped, fieldValue.v))]
            ELSE fields
    IN  Bind(GetFieldValue(stream, msgData, documentProperty,
                           IF fieldTypeMapped = "" THEN "binary" ELSE fieldTypeMapped),
             LAMBDA fieldValue :
                IF fieldValue.err # "" THEN [fields EXCEPT !.err = fieldValue.err]
                ELSE IF fieldClass = ATTACHMENT_DATA
                THEN [stored(fieldValue) EXCEPT !.dataId = documentProperty.index,
                                                !.contentLength = documentProperty.sizeBlock]
                ELSE stored(fieldValue))

RECURSIVE FieldsDataDir(_, _, _, _)
RECURSIVE FieldsDataDirInner(_, _, _, _)
RECURSIVE FieldsDataChild(_, _, _, _, _)
RECURSIVE FieldsDataChildren(_, _, _, _, _, _)

FieldsDataDirInner(stream, msgData, dirProperty, fields) ==
    IF StartsWith(dirProperty.name, PREFIX_ATTACHMENT)
    THEN IF ~fields.top THEN [fields EXCEPT !.err = "TypeError"]
         ELSE Bind(FieldsDataDir(stream, msgData, dirProperty, NewBag(FALSE)),
                   LAMBDA attachmentField :
                      [fields EXCEPT !.attachments = Append(@, attachmentField),
                                     !.err = attachmentField.err])
    ELSE IF StartsWith(dirProperty.name, PREFIX_RECIPIENT)
    THEN IF ~fields.top THEN [fields EXCEPT !.err = "TypeError"]
         ELSE Bind(FieldsDataDir(stream, msgData, dirProperty, NewBag(FALSE)),
                   LAMBDA recipientField :
                      [fields EXCEPT !.recipients = Append(@, recipientField),
                                     !.err = recipientField.err])
    ELSE IF GetFieldType(dirProperty) # INNER_MSG
    THEN FieldsDataDir(stream, msgData, dirProperty, fields)
    ELSE [fields EXCEPT !.innerMsgContent = TRUE]

\* the root's property stream read into fields._properties
FieldsDataRootProperties(stream, msgData, childProperty, fields) ==
    Bind(GetFieldValue(stream, msgData, childProperty, "binary"),
         LAMBDA bin :
            IF bin.err # "" THEN [fields EXCEPT !.err = bin.err]
            ELSE Bind(ReadRootProperties(bin.v),
                      LAMBDA root : [fields EXCEPT !.properties = root.props,
                                                   !.err = root.err]))

\* iteration i of the for loop of #fieldsDataDir; after an exception no
\* further iteration runs
FieldsDataChild(stream, msgData, dirProperty, i, fields) ==
    LET childProperty == PropAt(msgData.propertyData, dirProperty.children[i])
        dirIsRoot == Contains(ToLowerCase(dirProperty.name), ROOT_WORD)
    IN  CASE fields.err # "" -> fields
          [] fields.err = "" /\ childProperty.type = TYPE_DIRECTORY ->
                FieldsDataDirInner(stream, msgData, childProperty, fields)
          [] fields.err = "" /\ childProperty.type = TYPE_DOCUMENT
                /\ StartsWith(childProperty.name, PREFIX_DOCUMENT) ->
                FieldsDataDocument(stream, msgData, childProperty, fields)
          [] fields.err = "" /\ childProperty.type # TYPE_DIRECTORY
                /\ ~(childProperty.type = TYPE_DOCUMENT
                      /\ StartsWith(childProperty.name, PREFIX_DOCUMENT))
                /\ dirIsRoot /\ childProperty.name = PROPERTIES_STREAM ->
                FieldsDataRootProperties(stream, msgData, childProperty, fields)
          [] OTHER -> fields

\* iterations i .. j of the for loop of #fieldsDataDir, the first half of
\* them and then the rest
FieldsDataChildren(stream, msgData, dirProperty, i, j, fields) ==
    IF i > j THEN fields
    ELSE IF i = j THEN FieldsDataChild(stream, msgData, dirProperty, i, fields)
    ELSE Bind(FieldsDataChildren(stream, msgData, dirProperty, i, (i + j) \div 2, fields),
              LAMBDA half : FieldsDataChildren(stream, msgData, dirProperty,
                                               (i + j) \div 2 + 1, j, half))

FieldsDataDir(stream, msgData, dirProperty, fields) ==
    FieldsDataChildren(stream, msgData, dirProperty, 1, Len(dirProperty.children), fields)

FieldsData(stream, msgData) ==
    FieldsDataDir(stream, msgData, PropAt(msgData.propertyData, 0), NewBag(TRUE))


(***************************************************************************)
(* The parse and the public operations.                                    *)
(***************************************************************************)
\* msgData after each statement of #parseMsgData
MsgDataBat(stream) ==
    Bind(HeaderData(stream),
         LAMBDA header : [header EXCEPT !.batData = BatData(stream, header)])

MsgDataSbat(stream) ==
    Bind(MsgDataBat(stream),
         LAMBDA bat : [bat EXCEPT !.sbatData = SbatData(stream, bat)])

MsgDataXbat(stream) ==
    Bind(MsgDataSbat(stream),
         LAMBDA sbat : IF sbat.xbatCount > 0
                       THEN [sbat EXCEPT !.batData = XbatData(stream, sbat)] ELSE sbat)

\* [err, msgData]: msgData with its directory, or what stopped the parse
MsgDataProperty(stream) ==
    Bind(MsgDataXbat(stream),
         LAMBDA xbat :
            Bind(PropertyData(stream, xbat),
                 LAMBDA dir : [err |-> dir.err,
                               msgData |-> [xbat EXCEPT !.propertyData = dir.props]]))

\* #parseMsgData: [err, msgData, fieldsData]; the parse was stopped when
\* err or fieldsData.err is not ""
ParseMsgData(stream) ==
    Bind(MsgDataProperty(stream),
         LAMBDA parsed :
            [err |-> parsed.err, msgData |-> parsed.msgData,
             fieldsData |-> IF parsed.err # "" THEN NewBag(TRUE)
                            ELSE FieldsData(stream, parsed.msgData)])

\* new MsgReader(arrayBuffer): what the constructor leaves in #fileData
\* (Idle: never assigned) and how it ends
(***************************************************************************)
(* The transport headers (#splitHeaders, getHeader).  A string is the      *)
(* sequence of its code units.  The headers object maps its own keys to    *)
(* values: a string, or an array of strings; reading a name that           *)
(* Object.prototype has and the object does not gives the inherited member.*)
(***************************************************************************)
\* the white space of \s in a regular expression and of String.prototype.trim
IsSpace(u) ==
    u \in {9, 10, 11, 12, 13, 32, 160, 5760, 8232, 8233, 8239, 8287, 12288, 65279}
           \cup 8192..8202

\* the positions of the line feeds that /\n(?=[^\s])/g matches
SplitPoints(text) ==
    { i \in 1..(Len(text) - 1) : text[i] = 10 /\ ~IsSpace(text[i + 1]) }

\* headerRaw.split(/\n(?=[^\s])/g)
SplitLines(text) ==
    LET cuts == SplitPoints(text)
        Cut(k) == CHOOSE p \in cuts : Cardinality({ q \in cuts : q <= p }) = k
    IN  [k \in 1..(Cardinality(cuts) + 1) |->
            SubSeq(text, IF k = 1 THEN 1 ELSE Cut(k - 1) + 1,
                         IF k = Cardinality(cuts) + 1 THEN Len(text) ELSE Cut(k) - 1)]

\* header.indexOf(':')
IndexOfColon(header) ==
    LET at == { i \in 1..Len(header) : header[i] = 58 }
    IN  IF at = {} THEN -1 ELSE (CHOOSE i \in at : \A j \in at : i <= j) - 1

\* String.prototype.trim
Trim(units) ==
    LET keep == { i \in 1..Len(units) : ~IsSpace(units[i]) }
    IN  IF keep = {} THEN <<>>
        ELSE SubSeq(units, CHOOSE i \in keep : \A j \in keep : i <= j,
                           CHOOSE i \in keep : \A j \in keep : i >= j)

HeaderString(units) == [t |-> "string", s |-> units]

HeaderArray(items) == [t |-> "array", a |-> items]

\* the names of Object.prototype that a lower-cased key can equal:
\* 'constructor' and '__proto__'
ObjectPrototypeKeys ==
    { <<99, 111, 110, 115, 116, 114, 117, 99, 116, 111, 114>>,
      <<95, 95, 112, 114, 111, 116, 111, 95, 95>> }

\* obj[key] of an object made by {}
HeaderAt(obj, key) ==
    IF key \in DOMAIN obj THEN obj[key]
    ELSE IF key \in ObjectPrototypeKeys THEN [t |-> "inherited"]
    ELSE [t |-> "undefined"]

\* the truth value of obj[key]: undefined and '' are falsy
HeaderTruthy(v) == v.t \in {"array", "inherited"} \/ (v.t = "string" /\ v.s # <<>>)

\* the body of the for loop of #splitHeaders for one header
SplitHeadersStep(responseHeaders, header) ==
    LET sepPos == IndexOfColon(header)
        key == Trim(ToLowerCase(Substring(header, 0, sepPos)))
        value == Trim(Substring(header, sepPos + 1, Len(header)))
        old == HeaderAt(responseHeaders.obj, key)
        wrapped == IF HeaderTruthy(old) /\ old.t = "string"
                   THEN Put(responseHeaders.obj, key, HeaderArray(<<old.s>>))
                   ELSE responseHeaders.obj
        now == HeaderAt(wrapped, key)
    IN  CASE sepPos = -1 -> responseHeaders
          [] sepPos # -1 /\ HeaderTruthy(now) /\ now.t = "array" ->
                [responseHeaders EXCEPT
                    !.obj = Put(wrapped, key, HeaderArray(Append(now.a, value)))]
          [] sepPos # -1 /\ HeaderTruthy(now) /\ now.t # "array" ->
                [responseHeaders EXCEPT !.err = "TypeError"]
          [] OTHER -> [responseHeaders EXCEPT !.obj = Put(wrapped, key, HeaderString(value))]

RECURSIVE SplitHeadersLoop(_, _, _)
SplitHeadersLoop(lines, i, responseHeaders) ==
    IF i > Len(lines) \/ responseHeaders.err # "" THEN responseHeaders
    ELSE Bind(SplitHeadersStep(responseHeaders, lines[i]),
              LAMBDA next : SplitHeadersLoop(lines, i + 1, next))

\* #splitHeaders(headerRaw): [err, obj]
SplitHeaders(headerRaw) ==
    SplitHeadersLoop(SplitLines(headerRaw), 1, [err |-> "", obj |-> <<>>])

NullHeader == [t |-> "null"]

\* this.#headers: undefined until the constructor assigns the object
NoHeaders == [assigned |-> FALSE]

HeadersObject(obj) == [assigned |-> TRUE, obj |-> obj]

\* getHeader(key), decode and removeLineBreaks left at their default false
GetHeader(hdrs, key) ==
    IF hdrs.assigned /\ HeaderTruthy(HeaderAt(hdrs.obj, ToLowerCase(key)))
    THEN HeaderAt(hdrs.obj, ToLowerCase(key))
    ELSE NullHeader

\* the key of the bag that the constructor reads the headers from
TRANSPORT_HEADERS == Key("TransportMessageHeaders", <<>>, 0)

\* lines 35-37 of the constructor: [err, headers]
ConstructorHeaders(fieldsData) ==
    CASE ~Truthy(fieldsData, TRANSPORT_HEADERS) -> [err |-> "", headers |-> NoHeaders]
      [] Truthy(fieldsData, TRANSPORT_HEADERS)
           /\ fieldsData.vals[TRANSPORT_HEADERS].t = "binary" ->
            [err |-> "TypeError", headers |-> NoHeaders]
      [] OTHER -> Bind(SplitHeaders(AsSeq(fieldsData.vals[TRANSPORT_HEADERS])),
                       LAMBDA split : [err |-> split.err,
                                       headers |-> HeadersObject(split.obj)])

Constructor(stream) ==
    LET Thrown(e) == [err |-> e, fileData |-> Idle, headers |-> NoHeaders]
        Split(parsed, split) ==
            IF split.err # "" THEN Thrown(split.err)
            ELSE [err |-> "", fileData |-> [msgData |-> parsed.msgData,
                                            fieldsData |-> parsed.fieldsData],
                  headers |-> split.headers]
        Parsed(parsed) ==
            CASE parsed.err # "" -> Thrown(parsed.err)
              [] parsed.err = "" /\ parsed.fieldsData.err # "" ->
                    Thrown(parsed.fieldsData.err)
              [] OTHER -> Bind(ConstructorHeaders(parsed.fieldsData),
                               LAMBDA split : Split(parsed, split))
    IN  CASE IsMSGFile(stream) = "RangeError" -> Thrown("RangeError")
          [] IsMSGFile(stream) = "no" -> Thrown("Error: Unsupported file type!")
          [] OTHER -> Bind(ParseMsgData(stream), Parsed)

\* an argument of getAttachment: a number, or a bag handed out by getFileData
ByIndex(i) == [number |-> TRUE, i |-> i]

ByBag(bag) == [number |-> FALSE, bag |-> bag]

NoBag == [absent |-> TRUE]

\* (a lookup that always takes the first attachment)
AttachDataFirst(fd, attach) ==
    IF Len(fd.fieldsData.attachments) > 0 THEN fd.fieldsData.attachments[1] ELSE NoBag

\* typeof attach === 'number' ? attachments[attach] : attach
AttachData(fd, attach) ==
    IF attach.number
    THEN IF attach.i \in 0..(Len(fd.fieldsData.attachments) - 1)
         THEN fd.fieldsData.attachments[attach.i + 1] ELSE NoBag
    ELSE attach.bag

NoFileName == [t |-> "undefined", len |-> 0, data |-> <<>>]

FileNameKey == Key("AttachLongFileName", <<>>, 0)

GetAttachment(stream, fd, attach) ==
    LET attachData == AttachData(fd, attach)
        fieldProperty == PropAt(fd.msgData.propertyData, attachData.dataId)
        fieldTypeMapped == TYPE_MAPPING(GetFieldType(fieldProperty))
    IN  IF attachData = NoBag THEN [err |-> "TypeError"]
        ELSE IF attachData.dataId = Undefined \/ fieldProperty.isNull
        THEN [err |-> "TypeError"]
        ELSE Bind(GetFieldValue(stream, fd.msgData, fieldProperty, fieldTypeMapped),
                  LAMBDA fieldData :
                     IF fieldData.err # "" THEN [err |-> fieldData.err]
                     ELSE [err |-> "",
                           fileName |-> IF FileNameKey \in DOMAIN attachData.vals
                                        THEN attachData.vals[FileNameKey] ELSE NoFileName,
                           content |-> fieldData.v])


\* atm[name] of an attachment's bag, undefined when the bag has no such key
BagValue(bag, name) ==
    IF Key(name, <<>>, 0) \in DOMAIN bag.vals THEN bag.vals[Key(name, <<>>, 0)]
    ELSE NoFileName

\* the for loop of getAttachments from attachment i on; an exception of
\* getAttachment ends the call
RECURSIVE GetAttachmentsLoop(_, _, _, _)
GetAttachmentsLoop(stream, fd, i, attachments) ==
    IF i > Len(fd.fieldsData.attachments) THEN [err |-> "", list |-> attachments]
    ELSE LET atm == fd.fieldsData.attachments[i]
         IN  Bind(GetAttachment(stream, fd, ByBag(atm)),
                  LAMBDA attachment :
                     IF attachment.err # "" THEN [err |-> attachment.err, list |-> <<>>]
                     ELSE GetAttachmentsLoop(stream, fd, i + 1,
                              Append(attachments,
                                     [filename |-> attachment.fileName,
                                      contentType |-> BagValue(atm, "AttachMimeTag"),
                                      content |-> attachment.content,
                                      filesize |-> atm.contentLength,
                                      pidContentId |-> BagValue(atm, "AttachmentContentId")])))

GetAttachments(stream, fd) == GetAttachmentsLoop(stream, fd, 1, <<>>)


(***************************************************************************)
(* getTo, getCc, getBcc (#getRecipients, #getEmailIfValid).  A string is   *)
(* the sequence of its code units here; a result is [err, ...].            *)
(***************************************************************************)
\* the value is a JavaScript string (a stream decoded as string or unicode)
IsStringValue(v) == v.t \in {"string", "unicode"}

IsAlnum(u) == u \in (48..57) \cup (65..90) \cup (97..122)

\* the characters of the class [a-zA-Z0-9.!#$%&'*+/=?^_`{|}~-]
IsLocalChar(u) ==
    IsAlnum(u) \/ u \in {46, 33, 35, 36, 37, 38, 39, 42, 43, 47, 61, 63, 94, 95, 96,
                          123, 124, 125, 126, 45}

\* str.match(validRegex): a local part, '@', and labels of [a-zA-Z0-9-]
\* with single dots between them
MatchesValidRegex(str) ==
    \E at \in 2..(Len(str) - 1) :
        /\ str[at] = 64
        /\ \A k \in 1..(at - 1) : IsLocalChar(str[k])
        /\ \A k \in (at + 1)..Len(str) : IsAlnum(str[k]) \/ str[k] \in {45, 46}
        /\ str[at + 1] # 46 /\ str[Len(str)] # 46
        /\ \A k \in (at + 1)..(Len(str) - 1) : ~(str[k] = 46 /\ str[k + 1] = 46)

\* #getEmailIfValid(str): str.match of a value that is no string throws
GetEmailIfValid(v) ==
    IF ~IsStringValue(v) THEN [err |-> "TypeError", null |-> TRUE, s |-> <<>>]
    ELSE IF MatchesValidRegex(AsSeq(v)) THEN [err |-> "", null |-> FALSE, s |-> AsSeq(v)]
    ELSE [err |-> "", null |-> TRUE, s |-> <<>>]

\* (v ?? '').trim()
TrimOrEmpty(v) ==
    IF v.t \in {"undefined", "null"} THEN [err |-> "", s |-> <<>>]
    ELSE IF IsStringValue(v) THEN [err |-> "", s |-> Trim(AsSeq(v))]
    ELSE [err |-> "TypeError", s |-> <<>>]

\* const mail = (... ?? ... ?? recipient.DisplayName ?? '').trim()
RecipientMail(recipient) ==
    LET email == GetEmailIfValid(BagValue(recipient, "EmailAddress"))
        smtp == GetEmailIfValid(BagValue(recipient, "SmtpAddress"))
    IN  CASE email.err # "" -> [err |-> email.err, s |-> <<>>]
          [] email.err = "" /\ ~email.null -> [err |-> "", s |-> Trim(email.s)]
          [] email.err = "" /\ email.null /\ smtp.err # "" -> [err |-> smtp.err, s |-> <<>>]
          [] email.err = "" /\ email.null /\ smtp.err = "" /\ ~smtp.null ->
                [err |-> "", s |-> Trim(smtp.s)]
          [] OTHER -> TrimOrEmpty(BagValue(recipient, "DisplayName"))

\* fieldsData[name] ? fieldsData[name].trim() : ''
DisplayList(fieldsData, name) ==
    IF Truthy(fieldsData, Key(name, <<>>, 0))
    THEN (IF IsStringValue(BagValue(fieldsData, name))
          THEN [err |-> "", s |-> Trim(AsSeq(BagValue(fieldsData, name)))]
          ELSE [err |-> "TypeError", s |-> <<>>])
    ELSE [err |-> "", s |-> <<>>]

\* the callback of forEach for one recipient
GetRecipientsStep(response, recipient, displayTo, displayCc, displayBcc) ==
    LET mail == RecipientMail(recipient)
        disp == TrimOrEmpty(BagValue(recipient, "DisplayName"))
        type == CASE disp.s # <<>> /\ Contains(displayTo, disp.s) -> "to"
                  [] disp.s # <<>> /\ ~Contains(displayTo, disp.s)
                       /\ Contains(displayCc, disp.s) -> "cc"
                  [] disp.s # <<>> /\ ~Contains(displayTo, disp.s)
                       /\ ~Contains(displayCc, disp.s) /\ Contains(displayBcc, disp.s) -> "bcc"
                  [] OTHER -> "to"
    IN  CASE mail.err # "" -> [response EXCEPT !.err = mail.err]
          [] mail.err = "" /\ disp.err # "" -> [response EXCEPT !.err = disp.err]
          [] mail.err = "" /\ disp.err = "" /\ mail.s # <<>> /\ disp.s # <<>> ->
                [response EXCEPT ![type] = Append(@, disp.s \o <<32, 60>> \o mail.s \o <<62>>)]
          [] mail.err = "" /\ disp.err = "" /\ mail.s # <<>> /\ disp.s = <<>> ->
                [response EXCEPT ![type] = Append(@, mail.s)]
          [] mail.err = "" /\ disp.err = "" /\ mail.s = <<>> /\ disp.s # <<>> ->
                [response EXCEPT ![type] = Append(@, disp.s)]
          [] OTHER -> response

\* recipients.forEach from recipient i on; an exception ends the call
RECURSIVE GetRecipientsLoop(_, _, _, _, _, _)
GetRecipientsLoop(response, recipients, i, displayTo, displayCc, displayBcc) ==
    IF i > Len(recipients) \/ response.err # "" THEN response
    ELSE Bind(GetRecipientsStep(response, recipients[i], displayTo, displayCc, displayBcc),
              LAMBDA next : GetRecipientsLoop(next, recipients, i + 1,
                                              displayTo, displayCc, displayBcc))

\* the object "response" when forEach has ended
GetRecipientsResponse(fieldsData) ==
    LET displayTo == DisplayList(fieldsData, "DisplayTo")
        displayCc == DisplayList(fieldsData, "DisplayCc")
        displayBcc == DisplayList(fieldsData, "DisplayBcc")
        start == [to |-> <<>>, cc |-> <<>>, bcc |-> <<>>, err |-> ""]
    IN  CASE displayTo.err # "" -> [start EXCEPT !.err = displayTo.err]
          [] displayTo.err = "" /\ displayCc.err # "" -> [start EXCEPT !.err = displayCc.err]
          [] displayTo.err = "" /\ displayCc.err = "" /\ displayBcc.err # "" ->
                [start EXCEPT !.err = displayBcc.err]
          [] OTHER -> GetRecipientsLoop(start, fieldsData.recipients, 1,
                                        displayTo.s, displayCc.s, displayBcc.s)

\* array.join('; ')
RECURSIVE Join(_)
Join(list) ==
    IF list = <<>> THEN <<>>
    ELSE IF Len(list) = 1 THEN list[1]
    ELSE list[1] \o <<59, 32>> \o Join(Tail(list))

\* #getRecipients()
GetRecipients(fieldsData) ==
    Bind(GetRecipientsResponse(fieldsData),
         LAMBDA response : [err |-> response.err, to |-> Join(response.to),
                            cc |-> Join(response.cc), bcc |-> Join(response.bcc)])

\* getHeader(key, true, true) || this.#getRecipients()[key]; the headers
\* drawn have no encoded word and no folded line, which the decoding and the
\* removal of line breaks leave as they are
GetRecipientsOf(hdrs, fieldsData, key, which) ==
    IF HeaderTruthy(GetHeader(hdrs, key))
    THEN [err |-> "", header |-> TRUE, v |-> GetHeader(hdrs, key)]
    ELSE Bind(GetRecipients(fieldsData),
              LAMBDA r : [err |-> r.err, header |-> FALSE, v |-> HeaderString(r[which])])

GetBcc(hdrs, fieldsData) == GetRecipientsOf(hdrs, fieldsData, <<98, 99, 99>>, "bcc")

GetCc(hdrs, fieldsData) == GetRecipientsOf(hdrs, fieldsData, <<99, 99>>, "cc")

GetTo(hdrs, fieldsData) == GetRecipientsOf(hdrs, fieldsData, <<116, 111>>, "to")

(***************************************************************************)
(* Buffers.  A buffer is built from the pieces a writer of the format lays *)
(* down; the layout is fixed (512-byte sectors) and the contents vary.     *)
(***************************************************************************)
\* the bytes of a 32-bit value, little-endian, at pos
Int32LE(pos, v) ==
    LET w == IF v < 0 THEN v + 2147483647 + 1 ELSE v
        top == w \div 16777216 + (IF v < 0 THEN 128 ELSE 0)
    IN  (pos :> w % 256) @@ (pos + 1 :> (w \div 256) % 256) @@
        (pos + 2 :> (w \div 65536) % 256) @@ (pos + 3 :> top)

Int16LE(pos, v) == (pos :> v % 256) @@ (pos + 1 :> v \div 256)

BytesAt(pos, bytes) == [o \in pos..(pos + Len(bytes) - 1) |-> bytes[o - pos + 1]]

UnitsAt(pos, units) ==
    [o \in pos..(pos + 2 * Len(units) - 1) |->
        IF (o - pos) % 2 = 0 THEN units[(o - pos) \div 2 + 1] % 256
        ELSE units[(o - pos) \div 2 + 1] \div 256]

\* the 32-bit entries of a table, from pos on
RECURSIVE Int32sAt(_, _)
Int32sAt(pos, values) ==
    IF values = <<>> THEN <<>>
    ELSE Int32LE(pos, Head(values)) @@ Int32sAt(pos + 4, Tail(values))

SectorAt(n) == (n + 1) * S_BIG_BLOCK_SIZE

\* the layout, in sectors: one FAT sector (sector 0), the directory chain,
\* one mini-FAT sector, the mini stream, a regular stream; and in
\* mini-sectors: the one long mini chain
Layout ==
    [dirFirst |-> 1, dirLast |-> 3, miniFatSector |-> 4, miniFirst |-> 5,
     miniLast |-> 13, bigFirst |-> 14, bigLast |-> 22, longFirst |-> 8, longLast |-> 11]

FileLength == SectorAt(Layout.bigLast + 1)

MiniAt(k) == SectorAt(Layout.miniFirst) + k * SMALL_BLOCK_SIZE

\* a chain first -> first + 1 -> ... -> last -> END_OF_CHAIN as table entries
ChainEntries(first, last) ==
    [i \in 1..(last - first + 1) |-> IF first + i - 1 = last THEN END_OF_CHAIN ELSE first + i]

FatEntries ==
    <<-3>> \o ChainEntries(Layout.dirFirst, Layout.dirLast) \o <<END_OF_CHAIN>>
           \o ChainEntries(Layout.miniFirst, Layout.miniLast) \o ChainEntries(Layout.bigFirst, Layout.bigLast)

MiniFatEntries ==
    [i \in 1..Layout.longFirst |-> END_OF_CHAIN] \o ChainEntries(Layout.longFirst, Layout.longLast)

MAGIC == <<208, 207, 17, 224, 161, 177, 26, 225>>

HeaderBytes(magic) ==
    BytesAt(0, magic) @@ (30 :> 9) @@
    Int32LE(BAT_COUNT_OFFSET, 1) @@ Int32LE(PROPERTY_START_OFFSET, Layout.dirFirst) @@
    Int32LE(SBAT_START_OFFSET, Layout.miniFatSector) @@ Int32LE(SBAT_COUNT_OFFSET, 1) @@
    Int32LE(XBAT_START_OFFSET, END_OF_CHAIN) @@ Int32LE(XBAT_COUNT_OFFSET, 0) @@
    Int32LE(BAT_START_OFFSET, 0)

\* a directory entry to write: its name, type, pointers, start and size
Entry(name, type, prev, next, child, start, size) ==
    [name |-> name, type |-> type, prev |-> prev, next |-> next, child |-> child,
     start |-> start, size |-> size]

EntryBytes(pos, e) ==
    UnitsAt(pos, e.name) @@
    Int16LE(pos + NAME_SIZE_OFFSET, 2 * (Len(e.name) + 1)) @@
    (pos + TYPE_OFFSET :> e.type) @@
    Int32LE(pos + PREVIOUS_PROPERTY_OFFSET, e.prev) @@
    Int32LE(pos + NEXT_PROPERTY_OFFSET, e.next) @@
    Int32LE(pos + CHILD_PROPERTY_OFFSET, e.child) @@
    Int32LE(pos + START_BLOCK_OFFSET, e.start) @@
    Int32LE(pos + SIZE_OFFSET, e.size)

RECURSIVE EntriesFrom(_, _)
EntriesFrom(pos, entries) ==
    IF entries = <<>> THEN <<>>
    ELSE EntryBytes(pos, Head(entries)) @@ EntriesFrom(pos + PROPERTY_SIZE, Tail(entries))

\* a buffer: header, tables, the entries and the contents (offset -> byte)
Buffer(magic, entries, contents) ==
    [len |-> FileLength,
     mem |-> HeaderBytes(magic) @@ Int32sAt(SectorAt(0), FatEntries) @@
             Int32sAt(SectorAt(Layout.miniFatSector), MiniFatEntries) @@
             EntriesFrom(SectorAt(Layout.dirFirst), entries) @@ contents]


(***************************************************************************)
(* The messages drawn: one message with a root property stream, up to      *)
(* three Subject streams, two attachments and a recipient; what varies is  *)
(* the signature, the reserved bytes of the property stream, the Subject   *)
(* streams' contents, and the first attachment's data stream.              *)
(***************************************************************************)
ROOT_ENTRY == <<82, 111, 111, 116, 32, 69, 110, 116, 114, 121>>       \* 'Root Entry'

\* '__substg1.0_' + tag + type
StreamName(tag, type) == PREFIX_DOCUMENT \o <<48, 95>> \o tag \o type

\* the names a writer gives the storages: '__attach_version1.0_#0000000' + digit
AttachmentStorage(digit) ==
    <<95, 95, 97, 116, 116, 97, 99, 104, 95, 118, 101, 114, 115, 105, 111, 110, 49, 46, 48,
      95, 35, 48, 48, 48, 48, 48, 48, 48, 48 + digit>>

\* '__recip_version1.0_#0000000' + digit
RecipientStorage(digit) ==
    <<95, 95, 114, 101, 99, 105, 112, 95, 118, 101, 114, 115, 105, 111, 110, 49, 46, 48,
      95, 35, 48, 48, 48, 48, 48, 48, 48, 48 + digit>>

\* '__substg1.0_3701000D', the storage of an embedded message
NestedStorage == PREFIX_DOCUMENT \o <<48, 95, 51, 55, 48, 49, 48, 48, 48, 68>>

\* '__nameid_version1.0', a storage of no special kind
NameidStorage ==
    <<95, 95, 110, 97, 109, 101, 105, 100, 95, 118, 101, 114, 115, 105, 111, 110, 49, 46, 48>>

\* 'subroot', a storage of no special kind whose name holds the word root
SubrootStorage == <<115, 117, 98, 114, 111, 111, 116>>

\* the name of the storage at entry 9
StorageName(kind) ==
    CASE kind = "nested" -> NestedStorage
      [] kind = "nameid" -> NameidStorage
      [] kind = "subroot" -> SubrootStorage
      [] OTHER -> RecipientStorage(0)

TAG_SUBJECT == <<48, 48, 51, 55>>            \* '0037'

TAG_FILENAME == <<51, 55, 48, 55>>           \* '3707'

TAG_DISPLAYNAME == <<51, 48, 48, 49>>        \* '3001'

TAG_HEADERS == <<48, 48, 55, 68>>            \* '007D'

TAG_BODY == <<49, 48, 48, 48>>               \* '1000'

TYPE_UNICODE == <<48, 48, 49, 70>>           \* '001F'

TYPE_STRING == <<48, 48, 49, 69>>            \* '001E'

TYPE_BINARY == <<48, 49, 48, 50>>            \* '0102'

TYPE_LONG == <<48, 48, 48, 51>>              \* '0003', not in TYPE_MAPPING

\* a Subject stream in mini-sector k: "text" holds two characters, "empty"
\* is a stream of size 0, "null" a stream of size 0 without a sector
SubjectEntry(kind, k, prev, next) ==
    IF kind = "absent" THEN Entry(<<>>, 0, -1, -1, -1, 0, 0)
    ELSE Entry(StreamName(TAG_SUBJECT, TYPE_UNICODE), TYPE_DOCUMENT, prev, next, NO_INDEX,
               IF kind = "null" THEN END_OF_CHAIN ELSE k,
               IF kind = "text" THEN 4 ELSE 0)

\* a Body stream of four bytes in mini-sector k, its storage type given
BodyEntry(type, k, prev, next) ==
    Entry(StreamName(TAG_BODY, type), TYPE_DOCUMENT, prev, next, NO_INDEX, k, 4)

\* the first attachment's data stream starts the long mini chain when it
\* is small and the regular stream when it is big; the long mini chain has
\* four mini-sectors, fewer than a declared size of 4095 needs: the code
\* copies the mini-sectors the chain has.  The storage at entry 9 is a
\* child of the root, or (place "attachment") of the second attachment.
\* A message with transport headers has them in mini-sector 5, the stream
\* at entry 11.  A message with Body streams has them at entries 2 and 3
\* in place of the Subject streams.  The stream below the storage at
\* entry 9 (entry 10) is a DisplayName stream, or (inner "props") a stream
\* named '__properties_version1.0' in mini-sector 5, or (inner "data") a
\* stream with the attachment-data tag 3701.  The stream of the second
\* attachment (entry 8) has the attachment-data tag or another tag.
MessageEntries(m) ==
    << Entry(ROOT_ENTRY, TYPE_ROOT, -1, -1, 2, Layout.miniFirst,
             (Layout.miniLast - Layout.miniFirst + 1) * S_BIG_BLOCK_SIZE),
       Entry(PROPERTIES_STREAM, TYPE_DOCUMENT, -1, -1, -1, 0, 48),
       IF m.body = <<>> THEN SubjectEntry(m.subj[1], 1, 1, 3)
       ELSE BodyEntry(m.body[1], 1, 1, 3),
       IF m.body = <<>> THEN SubjectEntry(m.subj[2], 2, -1, 4)
       ELSE BodyEntry(m.body[2], 2, -1, 4),
       Entry(AttachmentStorage(0), TYPE_DIRECTORY, -1, 7, 5, 0, 0),
       Entry(StreamName(ATTACHMENT_DATA, m.attType), TYPE_DOCUMENT, -1, 6, -1,
             IF m.attSize < BIG_BLOCK_MIN_DOC_SIZE THEN Layout.longFirst
             ELSE Layout.bigFirst, m.attSize),
       Entry(StreamName(m.attTag, TYPE_UNICODE), TYPE_DOCUMENT, -1, -1, -1, 4, 2),
       Entry(AttachmentStorage(1), TYPE_DIRECTORY, -1,
             IF m.place = "attachment" THEN NO_INDEX ELSE 9, 8, 0, 0),
       Entry(StreamName(m.secondTag, TYPE_BINARY), TYPE_DOCUMENT, -1,
             IF m.place = "attachment" THEN 9 ELSE NO_INDEX, -1, 6, 5),
       Entry(StorageName(m.storage), TYPE_DIRECTORY, -1,
             IF m.subj[3] = "absent" /\ m.head = <<>> THEN NO_INDEX ELSE 11, 10, 0, 0),
       IF m.inner = "props" THEN Entry(PROPERTIES_STREAM, TYPE_DOCUMENT, -1, -1, -1, 5, 48)
       ELSE IF m.inner = "data"
       THEN Entry(StreamName(ATTACHMENT_DATA, TYPE_BINARY), TYPE_DOCUMENT, -1, -1, -1, 7, 2)
       ELSE Entry(StreamName(TAG_DISPLAYNAME, TYPE_UNICODE), TYPE_DOCUMENT, -1, -1, -1, 7, 2),
       IF m.head = <<>> THEN SubjectEntry(m.subj[3], 3, -1, -1)
       ELSE Entry(StreamName(TAG_HEADERS, m.headType), TYPE_DOCUMENT, -1, -1, -1,
                  5, 2 * Len(m.head)) >>

\* the root property stream is mini-sector 0: a header and one record
\* (MessageFlags, type 0003); reserved is the offset of a byte set to 1, or -1;
\* the property stream below the storage at entry 9 has the record
\* Importance, type 0003
MessageContents(m) ==
    (IF m.reserved >= 0 THEN (MiniAt(0) + m.reserved :> 1) ELSE <<>>) @@
    Int32sAt(MiniAt(0) + 32, <<235339779, 6>>) @@ BytesAt(MiniAt(0) + 40, <<1, 2, 3, 4>>) @@
    UnitsAt(MiniAt(1), <<72, 105>>) @@ UnitsAt(MiniAt(2), <<79, 107>>) @@
    UnitsAt(MiniAt(3), <<89, 111>>) @@ UnitsAt(MiniAt(4), <<97>>) @@
    UnitsAt(MiniAt(5), m.head) @@
    (IF m.inner = "props"
     THEN Int32sAt(MiniAt(5) + 32, <<1507331, 6>>) @@ BytesAt(MiniAt(5) + 40, <<9>>)
     ELSE <<>>) @@
    BytesAt(MiniAt(6), <<1, 2, 3, 4, 5>>) @@ UnitsAt(MiniAt(7), <<114>>) @@
    (MiniAt(Layout.longFirst) :> 77) @@ (MiniAt(Layout.longLast) + 62 :> 78) @@
    (MiniAt(Layout.bigFirst) :> 79) @@
    BytesAt(SectorAt(Layout.bigFirst), <<66>>) @@
    BytesAt(SectorAt(Layout.bigFirst) + 4095, <<90, 91>>)

Message(magic, reserved, subj, attSize, attTag, attType) ==
    [magic |-> magic, reserved |-> reserved, subj |-> subj, attSize |-> attSize,
     attTag |-> attTag, attType |-> attType, storage |-> "recipient", place |-> "root",
     head |-> <<>>, headType |-> TYPE_UNICODE, body |-> <<>>, inner |-> "name",
     secondTag |-> ATTACHMENT_DATA]

\* the plain message with another storage at entry 9, or the storage elsewhere
StorageMessage(storage, place) ==
    [Message(MAGIC, -1, <<"text", "text", "absent">>, 5, TAG_FILENAME, TYPE_BINARY)
        EXCEPT !.storage = storage, !.place = place]

\* the header lines drawn: 'a:b', 'A: c', 'a:' and the folded ' e'
HeaderLineChoices ==
    { <<97, 58, 98>>, <<65, 58, 32, 99>>, <<97, 58>>, <<32, 101>> }

\* the header texts have 1 .. MaxHeaderLines lines
MaxHeaderLines == 2

\* the texts of n lines, a line feed between two lines
RECURSIVE HeaderTextsOf(_)
HeaderTextsOf(n) ==
    IF n = 1 THEN HeaderLineChoices
    ELSE { text \o <<10>> \o line : text \in HeaderTextsOf(n - 1), line \in HeaderLineChoices }

HeaderTexts == UNION { HeaderTextsOf(n) : n \in 1..MaxHeaderLines }

\* the plain message with transport headers, as a unicode or a binary stream
HeaderMessage(text, type) ==
    [Message(MAGIC, -1, <<"text", "text", "absent">>, 5, TAG_FILENAME, TYPE_BINARY)
        EXCEPT !.head = text, !.headType = type]

\* the plain message with two Body streams of the given storage types
BodyMessage(types) ==
    [Message(MAGIC, -1, <<"text", "text", "absent">>, 5, TAG_FILENAME, TYPE_BINARY)
        EXCEPT !.body = types]

\* the storage types drawn for a Body stream
BodyTypes == {TYPE_UNICODE, TYPE_BINARY}

\* the storage at entry 9 holding a stream named '__properties_version1.0'
PropertiesBelow(storage, place) == [StorageMessage(storage, place) EXCEPT !.inner = "props"]

\* the storage at entry 9 holding a stream with the attachment-data tag
DataBelow(storage, place) == [StorageMessage(storage, place) EXCEPT !.inner = "data"]

\* the second attachment without a data stream: its stream has the tag of
\* the file name
NoDataMessage(storage, place) ==
    [StorageMessage(storage, place) EXCEPT !.secondTag = TAG_FILENAME]

MessageBuffer(m) == Buffer(m.magic, MessageEntries(m), MessageContents(m))

\* the offsets tried for the byte set in the property stream
ReservedChoices == {0, 3, 7, 8, 20, 24, 27, 31}

SubjectKinds == {"text", "empty", "null"}

\* the declared sizes of the first attachment's data stream
AttachSizes == {5, 4095, 4096, 4097}

Messages ==
    { Message([MAGIC EXCEPT ![i] = 0], -1, <<"text", "text", "absent">>, 4095,
              TAG_FILENAME, TYPE_BINARY) : i \in 1..Len(MAGIC) }
    \cup
    { Message(MAGIC, r, <<"text", "text", "absent">>, 4095, TAG_FILENAME, TYPE_BINARY) :
        r \in ReservedChoices }
    \cup
    { Message(MAGIC, -1, <<a, b, c>>, 4095, TAG_FILENAME, TYPE_BINARY) :
        a \in SubjectKinds, b \in SubjectKinds, c \in SubjectKinds \cup {"absent"} }
    \cup
    { Message(MAGIC, -1, <<"text", "text", "absent">>, size, tag, type) :
        size \in AttachSizes, tag \in {TAG_FILENAME, TAG_SUBJECT},
        type \in {TYPE_BINARY, TYPE_STRING, TYPE_LONG} }
    \cup
    { StorageMessage(storage, place) :
        storage \in {"recipient", "nested", "nameid"}, place \in {"root", "attachment"} }
    \cup
    { PropertiesBelow(storage, place) :
        storage \in {"recipient", "nameid", "subroot"}, place \in {"root", "attachment"} }
    \cup
    { DataBelow(storage, place) :
        storage \in {"recipient", "nameid"}, place \in {"root", "attachment"} }
    \cup
    { NoDataMessage("nested", "attachment"), NoDataMessage("recipient", "root") }
    \cup
    { HeaderMessage(text, TYPE_UNICODE) : text \in HeaderTexts }
    \cup
    { HeaderMessage(<<97, 58, 98>>, TYPE_BINARY) }
    \cup
    { BodyMessage(<<a, b>>) : a \in BodyTypes, b \in BodyTypes }

\* a buffer with some bytes overwritten
Patched(buffer, patch) == [buffer EXCEPT !.mem = patch @@ @]

PlainMessage ==
    MessageBuffer(Message(MAGIC, -1, <<"text", "text", "absent">>, 4095,
                          TAG_FILENAME, TYPE_BINARY))

\* entry k of the regular table / of the mini table set to v
FatPatch(k, v) == Int32LE(SectorAt(0) + 4 * k, v)

MiniFatPatch(k, v) == Int32LE(SectorAt(Layout.miniFatSector) + 4 * k, v)

\* the type tag of directory entry k set to v
TypePatch(k, v) == (SectorAt(Layout.dirFirst) + k * PROPERTY_SIZE + TYPE_OFFSET :> v)

\* the type tags drawn that are none of root, storage and stream
OtherTypes == {0, 3, 255}

\* the directory chain as written, linked back to its first sector, linked
\* to itself, and ending in a free sector instead of END_OF_CHAIN; and the
\* chain as written with another type tag in the record of entry 3 or 6
DirectoryWalkBuffers ==
    { Patched(PlainMessage, TypePatch(k, v)) : k \in {3, 6}, v \in OtherTypes } \cup
    { PlainMessage,
      Patched(PlainMessage, FatPatch(Layout.dirLast, Layout.dirFirst)),
      Patched(PlainMessage, FatPatch(Layout.dirFirst, Layout.dirFirst)),
      Patched(PlainMessage, FatPatch(Layout.dirLast, UNUSED_BLOCK)) }

\* the long mini chain likewise
MiniWalkBuffers ==
    { PlainMessage,
      Patched(PlainMessage, MiniFatPatch(Layout.longLast, Layout.longFirst)),
      Patched(PlainMessage, MiniFatPatch(Layout.longFirst, Layout.longFirst)),
      Patched(PlainMessage, MiniFatPatch(Layout.longLast, UNUSED_BLOCK)) }

\* a buffer cut off inside the signature
ShortBuffer == [len |-> 4, mem |-> BytesAt(0, SubSeq(MAGIC, 1, 4))]

\* a message whose first attachment has 4097 bytes in the regular stream,
\* the chain of the stream visiting the second and third sector in reverse
\* order of their place in the file: bigFirst, bigFirst + 2, bigFirst + 1,
\* bigFirst + 3, ...; the two sectors start with the bytes 15 and 16
ScatteredBuffer ==
    Patched(MessageBuffer(Message(MAGIC, -1, <<"text", "text", "absent">>, 4097,
                                  TAG_FILENAME, TYPE_BINARY)),
            FatPatch(Layout.bigFirst, Layout.bigFirst + 2) @@
            FatPatch(Layout.bigFirst + 2, Layout.bigFirst + 1) @@
            FatPatch(Layout.bigFirst + 1, Layout.bigFirst + 3) @@
            (SectorAt(Layout.bigFirst + 1) :> 15) @@ (SectorAt(Layout.bigFirst + 2) :> 16))

\* the plain message with the size of the first attachment's file name
\* (entry 6, the one mini-sector 4) declared as 130 bytes
OverlongBuffer ==
    Patched(PlainMessage,
            Int32LE(SectorAt(Layout.dirFirst) + 6 * PROPERTY_SIZE + SIZE_OFFSET, 130))

\* the messages, the short buffer, the scattered stream, the overlong
\* stream, and two messages whose parse does not end: a cyclic directory
\* chain and a cyclic mini chain
Buffers ==
    { MessageBuffer(m) : m \in Messages } \cup
    {ShortBuffer, ScatteredBuffer, OverlongBuffer} \cup
    { Patched(PlainMessage, FatPatch(Layout.dirLast, Layout.dirFirst)),
      Patched(PlainMessage, MiniFatPatch(Layout.longLast, Layout.longFirst)) }


(***************************************************************************)
(* Spec: a MsgReader is constructed over a buffer and then used.  pc is    *)
(* "new" before the constructor runs, "ready" when it returned, "threw"    *)
(* when it threw and "hang" when it would not return; ret is what the last *)
(* operation returned or threw, arg the argument of the last getAttachment.*)
(* The reads leave the buffer as it is: every read of the buffers drawn    *)
(* stays inside the buffer, so DataStream never grows it.                  *)
(***************************************************************************)
\* the indices getAttachment is called with: 0 .. MaxAttachIndex
MaxAttachIndex == 2

Init ==
    /\ ds \in Buffers
    /\ pc = "new"
    /\ fileData = Idle
    /\ headers = Idle
    /\ ret = Idle
    /\ arg = Idle
    /\ hier = Idle
    /\ walk = Idle

Construct ==
    /\ pc = "new"
    /\ \E made \in {Constructor(ds)} :
           /\ pc' = IF made.err = "" THEN "ready"
                    ELSE IF made.err = "hang" THEN "hang" ELSE "threw"
           /\ fileData' = made.fileData
           /\ headers' = made.headers
           /\ ret' = [op |-> "new", err |-> made.err]
    /\ UNCHANGED <<ds, arg, hier, walk>>

GetFileData ==
    /\ pc = "ready"
    /\ ret' = [op |-> "getFileData", err |-> "", fieldsData |-> fileData.fieldsData]
    /\ arg' = Idle
    /\ UNCHANGED <<ds, headers, pc, fileData, hier, walk>>

\* getAttachment(attach) with a number, or with a bag of the attachments list
GetAttachmentCall ==
    /\ pc = "ready"
    /\ \E attach \in { ByIndex(i) : i \in 0..MaxAttachIndex } \cup
                     { ByBag(fileData.fieldsData.attachments[i]) :
                         i \in 1..Len(fileData.fieldsData.attachments) } :
         /\ arg' = attach
         /\ ret' = [op |-> "getAttachment", out |-> GetAttachment(ds, fileData, attach)]
    /\ UNCHANGED <<ds, headers, pc, fileData, hier, walk>>

\* the keys getHeader is called with: 'a', 'A', 'b' and 'constructor'
HeaderKeys ==
    { <<97>>, <<65>>, <<98>>,
      <<99, 111, 110, 115, 116, 114, 117, 99, 116, 111, 114>> }

\* getHeader(key)
GetHeaderCall ==
    /\ pc = "ready"
    /\ \E key \in HeaderKeys :
         /\ arg' = key
         /\ ret' = [op |-> "getHeader", out |-> GetHeader(headers, key)]
    /\ UNCHANGED <<ds, headers, pc, fileData, hier, walk>>

\* getAttachments()
GetAttachmentsCall ==
    /\ pc = "ready"
    /\ arg' = Idle
    /\ ret' = [op |-> "getAttachments", out |-> GetAttachments(ds, fileData)]
    /\ UNCHANGED <<ds, headers, pc, fileData, hier, walk>>

Next ==
    Construct \/ GetFileData \/ GetAttachmentCall \/ GetHeaderCall \/ GetAttachmentsCall

Spec == Init /\ [][Next]_vars


(***************************************************************************)
(* Properties of construction and use, checked under Spec.                 *)
(***************************************************************************)
\* the buffer starts with the signature D0 CF 11 E0 A1 B1 1A E1
SignaturePresent(stream) ==
    /\ stream.len >= 8
    /\ \A i \in 1..8 :
         ReadUint8At(stream, i - 1) = <<208, 207, 17, 224, 161, 177, 26, 225>>[i]

\* C1: once the constructor has run over a buffer whose first 8 bytes are
\* not the signature, it has thrown the signature error (or the read of the
\* 8 bytes failed), and no parse result was stored for that buffer
C1_BadSignatureFailsBeforeParsing ==
    (pc # "new" /\ ~SignaturePresent(ds)) =>
        /\ pc = "threw"
        /\ fileData = Idle
        /\ ret \in { [op |-> "new", err |-> e] :
                       e \in {"Error: Unsupported file type!", "RangeError"} }

\* the constructor threw on a buffer of full length whose signature is
\* wrong in its last four bytes only
C1_WrongSecondHalfWitness ==
    /\ pc = "threw"
    /\ ds.len = FileLength
    /\ \A i \in 0..3 : ReadUint8At(ds, i) = MAGIC[i + 1]
    /\ ~SignaturePresent(ds)
    /\ ret.err = "Error: Unsupported file type!"

\* a reserved byte of the root property stream (the stream is mini-sector 0
\* of the messages drawn) is not zero
ReservedByteSet(stream) ==
    /\ stream.len = FileLength
    /\ \E i \in (0..7) \cup (24..31) : ReadUint8At(stream, MiniAt(0) + i) # 0

\* C2: once the constructor has run over a message whose root property
\* stream has a non-zero reserved byte (bytes 0-7, or bytes 24-31 after the
\* four counters), it has thrown "invalid properties header" and stored no
\* parse result: no _properties, no partial bag
C2_ReservedBytesAbortTheParse ==
    (pc # "new" /\ SignaturePresent(ds) /\ ReservedByteSet(ds)) =>
        /\ pc = "threw"
        /\ fileData = Idle
        /\ ret = [op |-> "new", err |-> "Error: invalid properties header"]

\* the constructor threw on a message whose only non-zero reserved byte is
\* in the second reserved run
C2_SecondRunWitness ==
    /\ pc = "threw"
    /\ SignaturePresent(ds)
    /\ ReadUint8At(ds, MiniAt(0) + 27) # 0
    /\ ret.err = "Error: invalid properties header"


\* the directory entries of the parsed message
Props == fileData.msgData.propertyData

TopBag == fileData.fieldsData

\* the indices of the streams met for the top-level bag that carry the
\* Subject tag, in encounter order (the order of the root's child list)
SubjectStreams ==
    SelectSeq(Props[1].children,
              LAMBDA i : /\ Props[i + 1].type = TYPE_DOCUMENT
                         /\ Props[i + 1].name = StreamName(TAG_SUBJECT, TYPE_UNICODE))

\* the value a stream decodes to
Decoded(entry, typeMapped) ==
    GetFieldValue(ds, fileData.msgData, entry, typeMapped).v

\* C4: when n >= 2 streams met for the top-level bag resolve to the name
\* Subject, the bag holds the j-th of them, in encounter order, under
\* Subject (j = 1) or Subject-j: none is overwritten or dropped, whatever
\* the decoded values are
C4_EveryDuplicateKept ==
    (pc = "ready" /\ Len(SubjectStreams) >= 2) =>
        \A j \in 1..Len(SubjectStreams) :
            LET key == Key("Subject", <<>>, IF j = 1 THEN 0 ELSE j)
            IN  /\ key \in DOMAIN TopBag.vals
                /\ TopBag.vals[key] = Decoded(Props[SubjectStreams[j] + 1], "unicode")

\* C5: the resolver's result for a stream is the mini-chain extractor's
\* when the declared size is below 4096 and the regular-chain extractor's
\* otherwise (4096 included)
C5_MiniPathIffBelow4096 ==
    pc = "ready" =>
        \A i \in 1..Len(Props) :
            (~Props[i].isNull /\ Props[i].type = TYPE_DOCUMENT) =>
                GetFieldValue(ds, fileData.msgData, Props[i], "binary") =
                    IF Props[i].sizeBlock < 4096
                    THEN ExtractDataViaSbat(ds, fileData.msgData, Props[i], "binary")
                    ELSE ExtractDataViaBat(ds, fileData.msgData, Props[i], "binary")

\* a stream of exactly 4096 bytes was resolved by the regular path, and
\* the mini path would have given other bytes
C5_BoundaryWitness ==
    /\ pc = "ready"
    /\ Props[6].sizeBlock = 4096
    /\ GetFieldValue(ds, fileData.msgData, Props[6], "binary")
         = ExtractDataViaBat(ds, fileData.msgData, Props[6], "binary")
    /\ ExtractDataViaBat(ds, fileData.msgData, Props[6], "binary")
         # ExtractDataViaSbat(ds, fileData.msgData, Props[6], "binary")
    /\ TopBag.attachments[1].vals[Key("AttachDataObj", <<>>, 0)].len = 4096

\* the name starts with '__attach_version1.0'
IsAttachmentName(name) ==
    /\ Len(name) >= 19
    /\ SubSeq(name, 1, 19) = <<95, 95, 97, 116, 116, 97, 99, 104, 95, 118, 101, 114,
                               115, 105, 111, 110, 49, 46, 48>>

\* the parsed container with everything under the attachment storages
\* taken away
WithoutAttachmentContents ==
    [fileData.msgData EXCEPT !.propertyData =
        [i \in DOMAIN Props |->
            IF ~Props[i].isNull /\ IsAttachmentName(Props[i].name)
            THEN [Props[i] EXCEPT !.children = <<>>] ELSE Props[i]]]

\* what a bag holds itself (its sub-bags aside)
OwnKeys(bag) ==
    [vals |-> bag.vals, dataId |-> bag.dataId, contentLength |-> bag.contentLength,
     innerMsgContent |-> bag.innerMsgContent, properties |-> bag.properties]

\* C7: the keys and values of the top-level bag are those of the same
\* message with every stream under an attachment storage removed: such
\* streams add or change nothing at message scope
C7_AttachmentStreamsStayInTheirBag ==
    pc = "ready" =>
        /\ OwnKeys(TopBag) = OwnKeys(FieldsData(ds, WithoutAttachmentContents))
        /\ TopBag.recipients = FieldsData(ds, WithoutAttachmentContents).recipients

\* an attachment holds a stream with the Subject tag, and so does the message
C7_SharedTagWitness ==
    /\ pc = "ready"
    /\ Len(TopBag.attachments) = 2
    /\ Key("Subject", <<>>, 0) \in DOMAIN TopBag.attachments[1].vals
    /\ Key("Subject", <<>>, 0) \in DOMAIN TopBag.vals
    /\ TopBag.vals[Key("Subject", <<>>, 0)] # TopBag.attachments[1].vals[Key("Subject", <<>>, 0)]

\* C9: after parsing, no attachment sub-bag with a dataId holds the decoded
\* payload of its data stream (tag 3701), under AttachDataObj or any key
C9_PayloadNotInTheBag ==
    pc = "ready" =>
        \A n \in 1..Len(TopBag.attachments) :
            LET a == TopBag.attachments[n]
            IN  a.dataId # Undefined =>
                    \A k \in DOMAIN a.vals :
                        /\ k.name # "AttachDataObj"
                        /\ a.vals[k] # Decoded(Props[a.dataId + 1], "binary")


\* the Stream Resolver's result for the directory entry with index dataId,
\* for the type its name carries
ResolvedContent(dataId) ==
    GetFieldValue(ds, fileData.msgData, PropAt(Props, dataId),
                  TYPE_MAPPING(GetFieldType(PropAt(Props, dataId))))

\* the last getAttachment returned the resolver's result for the entry of
\* the bag it was called for
LastContentIsResolved ==
    (pc = "ready" /\ ret # Idle /\ ret.op = "getAttachment") =>
        LET a == IF arg.number
                 THEN (IF arg.i < Len(TopBag.attachments)
                       THEN TopBag.attachments[arg.i + 1] ELSE NoBag)
                 ELSE arg.bag
        IN  (a # NoBag /\ a.dataId # Undefined) =>
                /\ ret.out.err = ResolvedContent(a.dataId).err
                /\ ret.out.err = "" => ret.out.content = ResolvedContent(a.dataId).v

\* by bag and by position, the call gives the same
SameByBagAndByIndex ==
    pc = "ready" =>
        \A i \in 1..Len(TopBag.attachments) :
            TopBag.attachments[i].dataId # Undefined =>
                GetAttachment(ds, fileData, ByBag(TopBag.attachments[i]))
                    = GetAttachment(ds, fileData, ByIndex(i - 1))

\* C10: for an attachment sub-bag a with a dataId, getAttachment(a) and
\* getAttachment(i), i the position of a, return the same content, the
\* Stream Resolver's result for the entry a.dataId, at every call; and no
\* operation on a constructed reader changes the parsed bag, the directory
\* entries or the buffer
C10_GetAttachmentResolvesAndKeeps ==
    /\ [](LastContentIsResolved /\ SameByBagAndByIndex)
    /\ [][pc = "ready" => (fileData' = fileData /\ ds' = ds)]_vars

\* getAttachment was called with the second attachment's bag and returned
\* that attachment's five bytes
C10_SecondAttachmentByBagWitness ==
    /\ pc = "ready"
    /\ ret # Idle /\ ret.op = "getAttachment"
    /\ arg # Idle /\ ~arg.number
    /\ Len(TopBag.attachments) = 2
    /\ arg.bag = TopBag.attachments[2]
    /\ ret.out.err = ""
    /\ AsSeq(ret.out.content) = <<1, 2, 3, 4, 5>>

\* the name starts with '__recip_version1.0'
IsRecipientName(name) ==
    /\ Len(name) >= 18
    /\ SubSeq(name, 1, 18) = <<95, 95, 114, 101, 99, 105, 112, 95, 118, 101, 114, 115,
                               105, 111, 110, 49, 46, 48>>

\* characters 17 to 20 of the name are '000D' or '000d'
HasNestedSuffix(name) ==
    /\ Len(name) >= 20
    /\ SubSeq(name, 17, 20) \in {<<48, 48, 48, 68>>, <<48, 48, 48, 100>>}

\* the entries of props that are storages of an embedded message
NestedStorages(props) ==
    { i \in 1..Len(props) :
        /\ ~props[i].isNull
        /\ props[i].type = TYPE_DIRECTORY
        /\ ~IsAttachmentName(props[i].name)
        /\ ~IsRecipientName(props[i].name)
        /\ HasNestedSuffix(props[i].name) }

\* the parsed container with the children of the embedded messages' storages
\* taken away
WithoutNestedContents ==
    [fileData.msgData EXCEPT !.propertyData =
        [i \in DOMAIN Props |->
            IF i \in NestedStorages(Props)
            THEN [Props[i] EXCEPT !.children = <<>>] ELSE Props[i]]]

\* the bag that is being filled when the children of entry p are met: the
\* top-level bag for the root, the attachment's sub-bag for an attachment
\* storage under the root
BagOf(p) ==
    IF p = 1 THEN TopBag
    ELSE TopBag.attachments[
             Cardinality({ q \in 1..p : /\ (q - 1) \in { Props[1].children[k] :
                                                          k \in DOMAIN Props[1].children }
                                        /\ IsAttachmentName(Props[q].name) })]

\* C11: a storage of an embedded message (type suffix 000d, neither
\* attachment nor recipient) is not recursed into: the parse ends without
\* error, the result is the one the same directory gives with the storage's
\* descendants taken away, and the bag being filled when the storage is met
\* has innerMsgContent = true
C11_NestedMessageIsFlaggedNotRead ==
    /\ (pc \in {"threw", "hang"} /\ ds.len = FileLength) =>
            NestedStorages(MsgDataProperty(ds).msgData.propertyData) = {}
    /\ pc = "ready" =>
            /\ FieldsData(ds, WithoutNestedContents) = TopBag
            /\ \A n \in NestedStorages(Props) :
                   \A p \in 1..Len(Props) :
                      (~Props[p].isNull
                         /\ (n - 1) \in { Props[p].children[k] :
                                            k \in DOMAIN Props[p].children }) =>
                          BagOf(p).innerMsgContent

\* an embedded message's storage with a stream below it was met inside the
\* second attachment, whose bag is flagged and holds the data stream only
C11_NestedInAttachmentWitness ==
    /\ pc = "ready"
    /\ 10 \in NestedStorages(Props)
    /\ Props[10].children = <<10>>
    /\ Props[8].children = <<8, 9>>
    /\ Len(TopBag.attachments) = 2
    /\ TopBag.attachments[2].innerMsgContent
    /\ ~TopBag.innerMsgContent
    /\ DOMAIN TopBag.attachments[2].vals = {Key("AttachDataObj", <<>>, 0)}

\* the streams met for the top-level bag that are Body streams (tag 1000)
\* of storage type 0102
BinaryBodyStreams ==
    SelectSeq(Props[1].children,
              LAMBDA i : /\ Props[i + 1].type = TYPE_DOCUMENT
                         /\ ToLowerCase(Props[i + 1].name)
                                = StreamName(TAG_BODY, TYPE_BINARY))

\* C21: the decoded payload of a Body stream (tag 1000) of storage type
\* 0102 is stored under no key of the bag it was met for, be it the first
\* Body stream of the bag or a later one
C21_BinaryBodyIsWithheld ==
    pc = "ready" =>
        \A j \in 1..Len(BinaryBodyStreams) :
            \A key \in DOMAIN TopBag.vals :
                TopBag.vals[key] # Decoded(Props[BinaryBodyStreams[j] + 1], "binary")

\* the fixed property bags decoded from the streams named
\* '__properties_version1.0' that are direct children of the root entry
RootPropertyBags ==
    { ReadRootProperties(Decoded(Props[i + 1], "binary")).props :
        i \in { c \in { Props[1].children[k] : k \in DOMAIN Props[1].children } :
                  /\ Props[c + 1].type = TYPE_DOCUMENT
                  /\ Props[c + 1].name = PROPERTIES_STREAM } }

\* C22: _properties comes only from a stream named __properties_version1.0
\* that is a direct child of the root entry (index 0): the top-level bag
\* has no _properties or the decoding of such a child, and the bag of an
\* attachment or recipient has none
C22_PropertiesOnlyBelowRoot ==
    pc = "ready" =>
        /\ TopBag.properties \in {NoProperties} \cup RootPropertyBags
        /\ \A k \in DOMAIN TopBag.attachments :
               TopBag.attachments[k].properties = NoProperties
        /\ \A k \in DOMAIN TopBag.recipients :
               TopBag.recipients[k].properties = NoProperties

\* the bag's dataId names a present stream entry with the tag 3701 whose
\* declared size is the bag's contentLength
DataIdNamesTheStream(bag) ==
    LET e == PropAt(Props, bag.dataId)
    IN  /\ ~e.isNull
        /\ e.type = TYPE_DOCUMENT
        /\ ToLowerCase(Substring(e.name, 12, 16)) = ATTACHMENT_DATA
        /\ e.sizeBlock = bag.contentLength

\* the bag has neither dataId nor contentLength
NoDataId(bag) == bag.dataId = Undefined /\ bag.contentLength = Undefined

\* C23: a bag with dataId has the index of a present stream entry with
\* the tag 3701 there and that entry's declared size as contentLength, and
\* only the sub-bags of attachments have dataId and contentLength
C23_DataIdOnlyOnAttachments ==
    pc = "ready" =>
        /\ \A k \in DOMAIN TopBag.attachments :
               \/ NoDataId(TopBag.attachments[k])
               \/ DataIdNamesTheStream(TopBag.attachments[k])
        /\ NoDataId(TopBag)
        /\ \A k \in DOMAIN TopBag.recipients : NoDataId(TopBag.recipients[k])

\* C27: getAttachments() returns a list with one element for each entry
\* of the parsed attachments list, in the same order, the element of an
\* attachment with a data stream carrying the stream's resolved content and
\* declared size; also when some attachment's bag has no dataId
C27_OneElementPerAttachment ==
    (pc = "ready" /\ ret.op = "getAttachments") =>
        /\ ret.out.err = ""
        /\ Len(ret.out.list) = Len(TopBag.attachments)
        /\ \A i \in 1..Len(TopBag.attachments) :
               TopBag.attachments[i].dataId # Undefined =>
                   /\ ret.out.list[i].content
                         = ResolvedContent(TopBag.attachments[i].dataId).v
                   /\ ret.out.list[i].filesize = TopBag.attachments[i].contentLength
                   /\ ret.out.list[i].filename
                         = BagValue(TopBag.attachments[i], "AttachLongFileName")

\* the values of the headers named key in text, in order of occurrence: a
\* header is a line with a colon, its name the part before the colon
Occurrences(text, key) ==
    LET lines == SplitLines(text)
        named == { k \in 1..Len(lines) :
                     /\ IndexOfColon(lines[k]) # -1
                     /\ Trim(ToLowerCase(Substring(lines[k], 0, IndexOfColon(lines[k]))))
                            = ToLowerCase(key) }
        Nth(n) == CHOOSE k \in named : Cardinality({ j \in named : j <= k }) = n
    IN  [n \in 1..Cardinality(named) |->
            Trim(Substring(lines[Nth(n)], IndexOfColon(lines[Nth(n)]) + 1,
                           Len(lines[Nth(n)])))]

\* the transport headers of the parsed message, '' when it has none
TransportText ==
    IF TRANSPORT_HEADERS \in DOMAIN TopBag.vals
    THEN AsSeq(TopBag.vals[TRANSPORT_HEADERS]) ELSE <<>>

\* C14: getHeader(key) returns null when the transport headers have no
\* header of that name (compared without case), the value as a string when
\* they have one, and the array of the values in order of occurrence when
\* they have more than one
C14_GetHeaderByOccurrences ==
    (pc = "ready" /\ ret.op = "getHeader") =>
        LET occ == Occurrences(TransportText, arg)
        IN  ret.out = CASE Len(occ) = 0 -> NullHeader
                        [] Len(occ) = 1 -> HeaderString(occ[1])
                        [] OTHER -> HeaderArray(occ)

\* the first n sectors of the regular chain that starts at sector s
RECURSIVE RegularChain(_, _)
RegularChain(s, n) ==
    IF n = 0 \/ s = Undefined \/ s < 0 THEN <<>>
    ELSE <<s>> \o RegularChain(GetNextBlock(ds, fileData.msgData, s), n - 1)

\* the non-zero bytes of the sectors of chain put one after the other, cut
\* to size bytes: position -> byte
ChainOrderData(chain, size) ==
    LET sectorSize == fileData.msgData.bigBlockSize
        Pos(p) == (p[1] - 1) * sectorSize + p[2] - (chain[p[1]] + 1) * sectorSize
        at == { p \in (1..Len(chain)) \X DOMAIN ds.mem :
                  /\ p[2] >= (chain[p[1]] + 1) * sectorSize
                  /\ p[2] < (chain[p[1]] + 2) * sectorSize
                  /\ ds.mem[p[2]] # 0
                  /\ Pos(p) < size }
    IN  [k \in { Pos(p) : p \in at } |-> ds.mem[(CHOOSE p \in at : Pos(p) = k)[2]]]

\* the streams of at least 4096 bytes whose chain has the sectors their
\* size needs, more than one
BigStreams ==
    { i \in 1..Len(Props) :
        /\ ~Props[i].isNull
        /\ Props[i].type = TYPE_DOCUMENT
        /\ Props[i].sizeBlock >= 4096
        /\ Len(RegularChain(Props[i].startBlock, (Props[i].sizeBlock + 511) \div 512))
              = (Props[i].sizeBlock + 511) \div 512 }

\* C15: the bytes resolved for a stream of at least 4096 bytes are the
\* sectors of its regular chain in chain order, from the start sector on,
\* cut to the declared size, whether or not the sectors are adjacent
C15_BigStreamIsItsChain ==
    pc = "ready" =>
        \A i \in BigStreams :
           GetFieldValue(ds, fileData.msgData, Props[i], "binary").v =
               [t |-> "binary", len |-> Props[i].sizeBlock,
                data |-> ChainOrderData(RegularChain(Props[i].startBlock,
                                                     (Props[i].sizeBlock + 511) \div 512),
                                        Props[i].sizeBlock)]

\* the first n mini-sectors of the mini chain that starts at mini-sector m
RECURSIVE MiniChain(_, _)
MiniChain(m, n) ==
    IF n = 0 \/ m = Undefined \/ m < 0 THEN <<>>
    ELSE <<m>> \o MiniChain(GetNextBlockSmall(ds, fileData.msgData, m), n - 1)

\* the file offset of mini-sector m: m * 64 mod the sector size inside the
\* sector that floor(m * 64 / sector size) steps of the regular chain reach
\* from the root entry's start sector
MiniSectorAt(m) ==
    LET sectorSize == fileData.msgData.bigBlockSize
        steps == (m * 64) \div sectorSize
    IN  (RegularChain(Props[1].startBlock, steps + 1)[steps + 1] + 1) * sectorSize
            + ((m * 64) % sectorSize)

MemAt(o) == IF o \in DOMAIN ds.mem THEN ds.mem[o] ELSE 0

\* the non-zero bytes of the mini-sectors of chain put one after the other
\* in a buffer of size bytes: position -> byte
MiniChainData(chain, size) ==
    LET ByteAt(pos) == MemAt(MiniSectorAt(chain[pos \div 64 + 1]) + (pos % 64))
    IN  [pos \in { q \in 0..(Min(size, 64 * Len(chain)) - 1) : ByteAt(q) # 0 } |->
            ByteAt(pos)]

\* the streams below 4096 bytes
MiniStreams ==
    { i \in 1..Len(Props) :
        /\ ~Props[i].isNull
        /\ Props[i].type = TYPE_DOCUMENT
        /\ Props[i].sizeBlock >= 0
        /\ Props[i].sizeBlock < 4096 }

\* C16: the value resolved for a stream below 4096 bytes is decoded from a
\* buffer of exactly the declared length that holds the 64-byte
\* mini-sectors of the stream's mini chain in chain order, each read at
\* its place in the mini stream (here with the decoder for raw bytes)
C16_MiniStreamIsItsChain ==
    pc = "ready" =>
        \A i \in MiniStreams :
           GetFieldValue(ds, fileData.msgData, Props[i], "binary").v =
               [t |-> "binary", len |-> Props[i].sizeBlock,
                data |-> MiniChainData(MiniChain(Props[i].startBlock, MaxLoop),
                                       Props[i].sizeBlock)]


(***************************************************************************)
(* SpecWalk: the two chain walks, one loop iteration per step.  walk holds *)
(* the container (header and tables, and the entries for the mini walk),   *)
(* the loop's variables and whether the loop was left.  A walk is cut      *)
(* after MaxWalkSteps iterations.  The mini chain walked is that of entry  *)
(* 5, the first attachment's data stream.                                  *)
(***************************************************************************)
MaxWalkSteps == 130

\* msgData as #parseMsgData has it when #propertyData is called
Tables(stream) == MsgDataXbat(stream)

\* msgData as it is when a stream is resolved
Container(stream) == MsgDataProperty(stream).msgData

InitWalk ==
    /\ pc = "walk"
    /\ fileData = Idle
    /\ headers = Idle
    /\ ret = Idle
    /\ arg = Idle
    /\ hier = Idle
    /\ \/ /\ ds \in DirectoryWalkBuffers
          /\ walk = [kind |-> "directory", msgData |-> Tables(ds),
                     loop |-> PropertyDataStart(Tables(ds)), steps |-> 0, done |-> FALSE]
       \/ /\ ds \in MiniWalkBuffers
          /\ walk = [kind |-> "mini", msgData |-> Container(ds),
                     loop |-> ChainSmallStart(PropAt(Container(ds).propertyData, 5)),
                     steps |-> 0, done |-> FALSE]

\* one iteration of the while loop of #propertyData
PropertyDataIterate ==
    /\ walk.kind = "directory" /\ ~walk.done
    /\ walk.loop.currentOffset # END_OF_CHAIN
    /\ walk.steps < MaxWalkSteps
    /\ walk' = [walk EXCEPT !.loop = PropertyDataStep(ds, walk.msgData, @),
                            !.steps = @ + 1]
    /\ UNCHANGED <<ds, headers, pc, fileData, ret, arg, hier>>

PropertyDataReturn ==
    /\ walk.kind = "directory" /\ ~walk.done
    /\ walk.loop.currentOffset = END_OF_CHAIN
    /\ walk' = [walk EXCEPT !.done = TRUE]
    /\ UNCHANGED <<ds, headers, pc, fileData, ret, arg, hier>>

\* one iteration of the while loop of #getChainByBlockSmall
ChainSmallIterate ==
    /\ walk.kind = "mini" /\ ~walk.done
    /\ walk.loop.nextBlockSmall # END_OF_CHAIN
    /\ walk.steps < MaxWalkSteps
    /\ walk' = [walk EXCEPT !.loop = ChainSmallStep(ds, walk.msgData, @),
                            !.steps = @ + 1]
    /\ UNCHANGED <<ds, headers, pc, fileData, ret, arg, hier>>

ChainSmallReturn ==
    /\ walk.kind = "mini" /\ ~walk.done
    /\ walk.loop.nextBlockSmall = END_OF_CHAIN
    /\ walk' = [walk EXCEPT !.done = TRUE]
    /\ UNCHANGED <<ds, headers, pc, fileData, ret, arg, hier>>

NextWalk ==
    PropertyDataIterate \/ PropertyDataReturn \/ ChainSmallIterate \/ ChainSmallReturn

SpecWalk == InitWalk /\ [][NextWalk]_vars

\* the number of entries of the table a walk follows
TableSize ==
    IF walk.kind = "directory"
    THEN Len(walk.msgData.batData) * walk.msgData.bigBlockLength
    ELSE Len(walk.msgData.sbatData) * walk.msgData.bigBlockLength

\* C8: a chain walk never makes more iterations than its table has
\* entries, cyclic chains and chains without END_OF_CHAIN included
C8_WalkBoundedByTableSize == walk.steps <= TableSize

\* the records of a directory sector
RecordsPerSector == walk.msgData.bigBlockSize \div PROPERTY_SIZE

\* the slots that one visit of the directory sector "sector" adds to the
\* list props: one for each record of the sector, absent when the record's
\* type tag is none of root, storage and stream, and otherwise the entry of
\* the record with the slot's number as index
SlotsOfSector(props, sector) ==
    [r \in 1..RecordsPerSector |->
        LET offset == GetBlockOffsetAt(walk.msgData, sector) + (r - 1) * PROPERTY_SIZE
        IN  IF ReadByte(ds, offset + TYPE_OFFSET) \in {TYPE_ROOT, TYPE_DIRECTORY, TYPE_DOCUMENT}
            THEN ConvertProperty(ds, Len(props) + r - 1, offset)
            ELSE NullProp]

\* C25: in the flat directory parse the entry list has one slot for each
\* record of each directory sector visited and slot i is absent or an
\* entry with index = i; each visit of a sector appends the slots of its
\* records in record order, an absent slot for a record whose type tag is
\* none of root, storage and stream, so no record shifts the indices of
\* the later entries
C25_SlotIsRecordIndex ==
    /\ [](walk.kind = "directory" =>
            /\ Len(walk.loop.props) = walk.steps * RecordsPerSector
            /\ \A i \in 0..(Len(walk.loop.props) - 1) :
                   \/ PropAt(walk.loop.props, i).isNull
                   \/ PropAt(walk.loop.props, i).index = i)
    /\ [][(walk.kind = "directory" /\ walk'.steps = walk.steps + 1
             /\ walk.loop.currentOffset # Undefined /\ walk.loop.currentOffset >= 0) =>
            walk'.loop.props
               = walk.loop.props \o SlotsOfSector(walk.loop.props, walk.loop.currentOffset)]_vars

\* the three directory sectors were read, the record of entry 3 has the
\* type tag 3, and the entries after it kept their indices
C25_OtherTypeInTheMiddleWitness ==
    /\ walk.kind = "directory"
    /\ walk.done
    /\ walk.steps = 3
    /\ ReadByte(ds, SectorAt(Layout.dirFirst) + 3 * PROPERTY_SIZE + TYPE_OFFSET) = 3
    /\ Len(walk.loop.props) = 12
    /\ walk.loop.props[4].isNull
    /\ walk.loop.props[5].index = 4
    /\ walk.loop.props[5].name = AttachmentStorage(0)
    /\ walk.loop.props[11].index = 10


(***************************************************************************)
(* SpecHier: tree reconstruction, one loop iteration or return per step,   *)
(* over entry lists with MaxEntries slots: slot 0 is the root, slot 1 is a *)
(* stream or a storage (whose previous pointer may name the last slot),    *)
(* the others are streams, the last may be absent.                         *)
(***************************************************************************)
MaxEntries == 4

MaxHierSteps == 12

HierPointers(i) ==
    [prev : {NO_INDEX} \cup 1..(i - 1), next : {NO_INDEX} \cup (i + 1)..(MaxEntries - 1)]

HierEntryChoices(i) ==
    { Property(i, TYPE_DOCUMENT, <<>>, p.prev, p.next, NO_INDEX, 0, 0) :
        p \in HierPointers(i) }
    \cup (IF i = 1
          THEN { Property(i, TYPE_DIRECTORY, <<>>, prev, p.next, c, 0, 0) :
                   prev \in {NO_INDEX, MaxEntries - 1},
                   p \in HierPointers(i), c \in {NO_INDEX} \cup 1..(MaxEntries - 1) }
          ELSE {})
    \cup (IF i = MaxEntries - 1 THEN {NullProp} ELSE {})

HierRootChoices ==
    { Property(0, TYPE_ROOT, <<>>, NO_INDEX, NO_INDEX, c, 0, 0) :
        c \in {NO_INDEX} \cup 1..(MaxEntries - 1) }

\* the lists of entries i .. MaxEntries - 1
RECURSIVE HierEntriesFrom(_)
HierEntriesFrom(i) ==
    IF i > MaxEntries - 1 THEN {<<>>}
    ELSE { <<e>> \o rest : e \in HierEntryChoices(i), rest \in HierEntriesFrom(i + 1) }

HierInputs == { <<root>> \o rest : root \in HierRootChoices, rest \in HierEntriesFrom(1) }

InitHier ==
    /\ \E props \in HierInputs : hier = HierStart(props)
    /\ pc = "hier"
    /\ ret = Idle
    /\ arg = Idle
    /\ ds = NoBuffer
    /\ fileData = Idle
    /\ headers = Idle
    /\ walk = Idle

HierarchyIterate ==
    /\ pc = "hier"
    /\ hier.stack # <<>>
    /\ hier.steps < MaxHierSteps
    /\ hier.stack[Len(hier.stack)].queue # <<>>
    /\ hier' = HierIterate(hier)
    /\ UNCHANGED <<ds, headers, pc, fileData, ret, arg, walk>>

HierarchyReturn ==
    /\ pc = "hier"
    /\ hier.stack # <<>>
    /\ hier.steps < MaxHierSteps
    /\ hier.stack[Len(hier.stack)].queue = <<>>
    /\ hier' = HierReturn(hier)
    /\ UNCHANGED <<ds, headers, pc, fileData, ret, arg, walk>>

NextHier == HierarchyIterate \/ HierarchyReturn

SpecHier == InitHier /\ [][NextHier]_vars

HierDone == pc = "hier" /\ hier.stack = <<>> /\ hier.err = ""

\* the entries of the sibling tree rooted at c, and whether the previous/next
\* pointers reached from c form a tree (no entry is reached twice)
RECURSIVE SiblingTree(_, _, _)
SiblingTree(props, c, acc) ==
    IF ~acc.ok \/ PropAt(props, c).isNull THEN acc
    ELSE IF c \in acc.nodes THEN [acc EXCEPT !.ok = FALSE]
    ELSE LET e == props[c + 1]
             l == SiblingTree(props, e.previousProperty,
                              [acc EXCEPT !.nodes = @ \cup {c}])
         IN  SiblingTree(props, e.nextProperty, l)

SiblingsOf(props, s) ==
    SiblingTree(props, props[s + 1].childProperty, [ok |-> TRUE, nodes |-> {}])

NoRepeats(seq) == \A i, j \in 1..Len(seq) : seq[i] = seq[j] => i = j

Range(seq) == { seq[i] : i \in 1..Len(seq) }

\* C6: when reconstruction has ended, every storage it built a child list
\* for, and whose sibling pointers form a binary tree below its child
\* pointer, lists every present entry of that tree exactly once and nothing
\* else; the root's list is built whenever the root has a child pointer.
C6_ChildrenAreTheSiblingTree ==
    HierDone =>
        /\ hier.props[1].hasChildren = (hier.props[1].childProperty # NO_INDEX)
        /\ \A s \in 0..(Len(hier.props) - 1) :
             LET e == hier.props[s + 1]
             IN  (~e.isNull /\ e.hasChildren /\ SiblingsOf(hier.props, s).ok) =>
                    /\ NoRepeats(e.children)
                    /\ Range(e.children) = SiblingsOf(hier.props, s).nodes

\* three siblings below the root, the child pointer on the middle one
C6_MiddleChildWitness ==
    /\ HierDone
    /\ hier.props[1].childProperty = 2
    /\ ~hier.props[3].isNull
    /\ hier.props[3].previousProperty = 1
    /\ hier.props[3].nextProperty = 3
    /\ ~hier.props[4].isNull
    /\ Len(hier.props[1].children) = 3

\* C13: an entry whose child pointer is -1 gets no child list, at any point
\* of the reconstruction and whatever its previous and next pointers are
C13_NoChildPointerNoChildren ==
    pc = "hier" =>
        \A s \in 0..(Len(hier.props) - 1) :
           LET e == hier.props[s + 1]
           IN  (~e.isNull /\ e.childProperty = NO_INDEX) =>
                   (~e.hasChildren /\ e.children = <<>>)

\* a storage without child pointer whose previous and next pointers both
\* name entries: they became children of the root, the storage has none
C13_StorageWithSiblingsWitness ==
    /\ HierDone
    /\ hier.props[2].type = TYPE_DIRECTORY
    /\ hier.props[2].childProperty = NO_INDEX
    /\ hier.props[2].previousProperty = 3
    /\ hier.props[2].nextProperty = 2
    /\ ~hier.props[2].hasChildren
    /\ hier.props[1].children = <<1, 3, 2>>


\* the reconstruction runs on as long as it has a step to make: the call
\* is one synchronous run of the interpreter
SpecHierFair == SpecHier /\ WF_vars(NextHier)

\* the call has returned or thrown; a recursion deeper than the number of
\* slots has some entry twice on the call stack and repeats until the call
\* stack is exhausted, which ends the call with a RangeError
HierEnded ==
    \/ hier.stack = <<>>
    \/ hier.err # ""
    \/ Len(hier.stack) > Len(hier.props)

FiletimePayloads ==
    { <<b0, b1, b2, b3, b4, b5, b6, b7>> :
        b0 \in {0}, b1 \in {0, 128}, b2 \in {0, 62}, b3 \in {0, 127, 128, 213, 255},
        b4 \in {0, 222}, b5 \in {0, 177}, b6 \in {0, 157}, b7 \in {0, 1, 127} }

InitFiletime ==
    /\ arg \in FiletimePayloads
    /\ pc = "input"
    /\ ret = Idle
    /\ ds = NoBuffer
    /\ fileData = Idle
    /\ headers = Idle
    /\ hier = Idle
    /\ walk = Idle

ApplyConvertFiletime ==
    /\ pc = "input"
    /\ ret' = ConvertFiletimeToDateTime(arg)
    /\ pc' = "output"
    /\ UNCHANGED <<ds, headers, fileData, arg, hier, walk>>

NextFiletime == ApplyConvertFiletime

SpecFiletime == InitFiletime /\ [][NextFiletime]_vars

\* the payload that encodes 116444736000000000
EpochPayload == <<0, 128, 62, 213, 222, 177, 157, 1>>

\* C3: for every type-0040 payload encoding the tick value t (little-endian,
\* low half in bytes 0-3), the decoded timestamp is (t - 116444736000000000)
\* divided by 10000 milliseconds; the epoch payload decodes to millisecond 0.
C3_FiletimeIsTicksOverTenThousand ==
    pc = "output" =>
        /\ ret = BigDiv10000(BigSub(BigMake(FALSE, MagFromBytesLE(arg)), EpochTicks))
        /\ (arg = EpochPayload => ret = BigZero)


(***************************************************************************)
(* SpecHeader: #headerData applied to headers with every value of the      *)
(* marker byte at offset 30, and #getBlockOffsetAt applied to a sector     *)
(* index under the header read.                                            *)
(***************************************************************************)
\* the sector indices drawn: 0 .. MaxSector
MaxSector == 3

MarkerBytes == 0..255

\* a file whose header has the marker byte mark at offset 30
HeaderBuffer(mark) ==
    [len |-> FileLength, mem |-> (30 :> mark) @@ HeaderBytes(MAGIC)]

InitHeader ==
    /\ ds \in { HeaderBuffer(mark) : mark \in MarkerBytes }
    /\ arg \in 0..MaxSector
    /\ pc = "input"
    /\ ret = Idle
    /\ fileData = Idle
    /\ headers = Idle
    /\ hier = Idle
    /\ walk = Idle

ApplyHeaderData ==
    /\ pc = "input"
    /\ \E msgData \in {HeaderData(ds)} :
           ret' = [bigBlockSize |-> msgData.bigBlockSize,
                   offset |-> GetBlockOffsetAt(msgData, arg)]
    /\ pc' = "output"
    /\ UNCHANGED <<ds, headers, fileData, arg, hier, walk>>

NextHeader == ApplyHeaderData

SpecHeader == InitHeader /\ [][NextHeader]_vars

\* C12: the sector size is 512 or 4096: 4096 when the byte at offset 30 is
\* 12, 512 when it is 9 and 512 for every other value; sector index s is at
\* byte offset (s + 1) * sector size
C12_SectorSizeFromMarker ==
    pc = "output" =>
        /\ ret.bigBlockSize \in {512, 4096}
        /\ ds.mem[30] = 12 => ret.bigBlockSize = 4096
        /\ ds.mem[30] = 9 => ret.bigBlockSize = 512
        /\ ds.mem[30] \notin {9, 12} => ret.bigBlockSize = 512
        /\ ret.offset = (arg + 1) * ret.bigBlockSize

\* the marker 12 was read and sector 2 is at offset 12288
C12_LargeSectorWitness ==
    /\ pc = "output"
    /\ ds.mem[30] = 12
    /\ arg = 2
    /\ ret = [bigBlockSize |-> 4096, offset |-> 12288]


(***************************************************************************)
(* SpecRecord: #readRootProperties applied to a property stream with the   *)
(* 32-byte header and one 16-byte record (MessageFlags, class 0e07) whose  *)
(* type, flags and payload are drawn.                                      *)
(***************************************************************************)
\* the flags drawn: 0 .. MaxFlags
MaxFlags == 31

\* the types 0001, 0002, 0003, 000b, 0014
RecordTypes == {1, 2, 3, 11, 20}

RecordPayloads ==
    { <<b0, b1, 0, b3, 0, 0, 0, b7>> :
        b0 \in {0, 1, 255}, b1 \in {0, 2}, b3 \in {0, 128}, b7 \in {0, 1, 255} }

\* the stream of one record
RecordStream(r) ==
    Elements("binary", 48,
             Int16LE(32, r.type) @@ Int16LE(34, 3591) @@ Int32LE(36, r.flags) @@
             BytesAt(40, r.payload))

InitRecord ==
    /\ arg \in [type : RecordTypes, flags : 0..MaxFlags, payload : RecordPayloads]
    /\ pc = "input"
    /\ ret = Idle
    /\ ds = NoBuffer
    /\ fileData = Idle
    /\ headers = Idle
    /\ hier = Idle
    /\ walk = Idle

ApplyReadRootProperties ==
    /\ pc = "input"
    /\ ret' = ReadRootProperties(RecordStream(arg))
    /\ pc' = "output"
    /\ UNCHANGED <<ds, headers, fileData, arg, hier, walk>>

NextRecord == ApplyReadRootProperties

SpecRecord == InitRecord /\ [][NextRecord]_vars

\* the record decoded from the stream
DecodedRecord == ret.props.recs[Key("MessageFlags", <<>>, 0)]

\* C17: mandatory is bit 0, readable bit 1 and writeable bit 2 of the
\* record's 32-bit flags value
C17_FlagsAreTheLowBits ==
    pc = "output" =>
        DecodedRecord.flags = [mandatory |-> arg.flags % 2 = 1,
                               readable |-> (arg.flags \div 2) % 2 = 1,
                               writeable |-> (arg.flags \div 4) % 2 = 1]

\* C18: a record of type 000b decodes to false when its 8 payload bytes
\* are zero and to true when they are not
C18_BooleanIsNonZeroPayload ==
    (pc = "output" /\ arg.type = 11) =>
        DecodedRecord.data = [k |-> "boolean", v |-> arg.payload # <<0, 0, 0, 0, 0, 0, 0, 0>>]

\* the signed value of the first n bytes of payload read little-endian,
\* n = 2 or 4
SignedLE(payload, n) ==
    LET u == IF n = 2 THEN payload[1] + 256 * payload[2]
             ELSE payload[1] + 256 * payload[2] + 65536 * payload[3]
                  + 16777216 * (payload[4] % 128)
    IN  IF n = 2 THEN (IF u >= 32768 THEN u - 65536 ELSE u)
        ELSE (IF payload[4] >= 128 THEN u - 2147483647 - 1 ELSE u)

\* the signed value of the 8 bytes of payload read little-endian
SignedLE64(payload) ==
    LET u == BigMake(FALSE, MagFromBytesLE(payload))
    IN  IF payload[8] >= 128 THEN BigSub(u, BigShl32(BigShl32(BigFromInt(1)))) ELSE u

\* C19: a record of type 0002, 0003 or 0014 decodes to the signed integer
\* of its first 2, 4 or 8 payload bytes read little-endian
C19_IntegersAreLittleEndian ==
    pc = "output" =>
        /\ arg.type = 2 => DecodedRecord.data.v = SignedLE(arg.payload, 2)
        /\ arg.type = 3 => DecodedRecord.data.v = SignedLE(arg.payload, 4)
        /\ arg.type = 20 => DecodedRecord.data.v = SignedLE64(arg.payload)


(***************************************************************************)
(* SpecXbat: #xbatData, one step per loop iteration, over files of a       *)
(* header and two DIFAT sectors (sectors 1 and 2, the first linked to the  *)
(* second).  The header declares batCount sectors of the regular table and *)
(* xbatCount DIFAT sectors; each DIFAT sector starts with two entries      *)
(* drawn and an UNUSED entry.                                              *)
(***************************************************************************)
\* 109 sectors of the table are in the header: the counts leave 0, 1, 2
\* and 129 for the DIFAT sectors; a count of 2 does not fill the header
XbatBatCounts == {2, 109, 110, 111, 238}

XbatCounts == {0, 1, 2}

XbatFirstEntries ==
    { <<a, b>> : a \in {7, UNUSED_BLOCK, END_OF_CHAIN}, b \in {8, UNUSED_BLOCK, END_OF_CHAIN} }

XbatSecondEntries == { <<9, 10>>, <<UNUSED_BLOCK, 10>> }

XbatBuffer(batCount, xbatCount, first, second) ==
    [len |-> SectorAt(3),
     mem |-> Int32LE(BAT_COUNT_OFFSET, batCount) @@ Int32LE(SBAT_COUNT_OFFSET, 0) @@
             Int32sAt(BAT_START_OFFSET, <<5, 3, 4>>) @@
             Int32LE(XBAT_START_OFFSET, 1) @@ Int32LE(XBAT_COUNT_OFFSET, xbatCount) @@
             HeaderBytes(MAGIC) @@
             Int32sAt(SectorAt(1), first \o <<UNUSED_BLOCK>>) @@
             Int32LE(SectorAt(1) + 4 * 127, 2) @@
             Int32sAt(SectorAt(2), second \o <<UNUSED_BLOCK>>) @@
             Int32LE(SectorAt(2) + 4 * 127, END_OF_CHAIN)]

XbatBuffers ==
    { XbatBuffer(batCount, xbatCount, first, second) :
        batCount \in XbatBatCounts, xbatCount \in XbatCounts,
        first \in XbatFirstEntries, second \in XbatSecondEntries }

InitXbat ==
    /\ ds \in XbatBuffers
    /\ pc = "xbat"
    /\ fileData = Idle
    /\ headers = Idle
    /\ ret = Idle
    /\ arg = Idle
    /\ hier = Idle
    /\ walk = [msgData |-> MsgDataSbat(ds), x |-> XbatStart(MsgDataSbat(ds)),
               done |-> FALSE]

XbatEnterBlock ==
    /\ pc = "xbat" /\ ~walk.done /\ ~walk.x.inner
    /\ walk.x.i < walk.msgData.xbatCount
    /\ walk' = [walk EXCEPT !.x = XbatEnter(ds, walk.msgData, @)]
    /\ UNCHANGED <<ds, headers, pc, fileData, ret, arg, hier>>

XbatInnerIterate ==
    /\ pc = "xbat" /\ ~walk.done /\ walk.x.inner
    /\ walk.x.j < walk.x.blocksToProcess
    /\ walk' = [walk EXCEPT !.x = XbatInner(ds, walk.msgData, @)]
    /\ UNCHANGED <<ds, headers, pc, fileData, ret, arg, hier>>

XbatLeaveBlock ==
    /\ pc = "xbat" /\ ~walk.done /\ walk.x.inner
    /\ walk.x.j >= walk.x.blocksToProcess
    /\ walk' = [walk EXCEPT !.x = XbatLeave(@)]
    /\ UNCHANGED <<ds, headers, pc, fileData, ret, arg, hier>>

XbatReturn ==
    /\ pc = "xbat" /\ ~walk.done /\ ~walk.x.inner
    /\ walk.x.i >= walk.msgData.xbatCount
    /\ walk' = [walk EXCEPT !.done = TRUE]
    /\ UNCHANGED <<ds, headers, pc, fileData, ret, arg, hier>>

NextXbat == XbatEnterBlock \/ XbatInnerIterate \/ XbatLeaveBlock \/ XbatReturn

SpecXbat == InitXbat /\ [][NextXbat]_vars

\* the count the header declares for the DIFAT sectors: batCount minus the
\* count of the sectors listed in the header
DeclaredRemaining ==
    Max(0, walk.msgData.batCount - Len(walk.msgData.batData))

\* C20: once an UNUSED or END_OF_CHAIN entry was read, or the declared
\* remaining count of sector indices was appended, no step appends a
\* sector index to the regular table, in the same DIFAT sector or a later one
C20_NothingAppendedAfterStop ==
    [][(walk.x.sentinel
          \/ Len(walk.x.batData) - Len(walk.msgData.batData) >= DeclaredRemaining)
         => walk'.x.batData = walk.x.batData]_vars

\* the sector indices listed in the header: the first min(batCount, 109)
\* 32-bit values from offset 76 on
HeaderIndices ==
    [i \in 1..Min(walk.msgData.batCount, 109) |->
        ReadInt32At(ds, BAT_START_OFFSET + 4 * (i - 1))]

\* C24: the regular table never has more than batCount entries: it starts
\* with the min(batCount, 109) sector indices of the header, in header
\* order, and the DIFAT step has appended at most batCount minus that
\* number of entries to them
C24_TableWithinDeclaredCount ==
    /\ Len(walk.x.batData) <= walk.msgData.batCount
    /\ SubSeq(walk.x.batData, 1, Len(HeaderIndices)) = HeaderIndices
    /\ Len(walk.x.batData) - Len(HeaderIndices)
          <= walk.msgData.batCount - Len(HeaderIndices)
    /\ walk.done => walk.x.batData = MsgDataXbat(ds).batData

\* a table of 110 declared sectors was assembled from the header's 109 and
\* one of the two valid indices of the first DIFAT sector
C24_OneOfTwoTakenWitness ==
    /\ walk.done
    /\ walk.msgData.batCount = 110
    /\ walk.msgData.xbatCount = 2
    /\ GetBlockAt(ds, walk.msgData, 1, 0) = 7
    /\ GetBlockAt(ds, walk.msgData, 1, 1) = 8
    /\ Len(walk.x.batData) = 110
    /\ walk.x.batData[110] = 7
    /\ SubSeq(walk.x.batData, 1, 3) = <<5, 3, 4>>


(***************************************************************************)
(* SpecTables: the allocation-table assembly of #parseMsgData, one         *)
(* statement per step, over files whose regular table has 109 or 110       *)
(* sectors: sector 0 is the first sector of the table, sector 1 its 110th  *)
(* (for the sectors 13952 to 14079), named by the one DIFAT sector (sector *)
(* 2).  The mini-FAT chain starts at sector 3 (3 -> 4), at sector 13952    *)
(* (13952 -> 13953 or ending there), or is empty.  walk holds the          *)
(* statement reached and msgData.                                          *)
(***************************************************************************)
\* the counts of mini-FAT sectors declared: 0 .. MaxSbatCount
MaxSbatCount == 3

\* the first sector whose table entry is in the 110th sector of the table
FarSector == 109 * (S_BIG_BLOCK_SIZE \div 4)

TablesBuffer(batCount, xbatCount, sbatStart, sbatCount, next) ==
    [len |-> SectorAt(FarSector + 2),
     mem |-> Int32LE(BAT_COUNT_OFFSET, batCount) @@
             Int32LE(SBAT_START_OFFSET, sbatStart) @@
             Int32LE(SBAT_COUNT_OFFSET, sbatCount) @@
             Int32LE(XBAT_START_OFFSET, 2) @@ Int32LE(XBAT_COUNT_OFFSET, xbatCount) @@
             HeaderBytes(MAGIC) @@
             Int32sAt(SectorAt(0) + 4 * 3, <<4, END_OF_CHAIN>>) @@
             Int32sAt(SectorAt(1), <<next, END_OF_CHAIN>>) @@
             Int32sAt(SectorAt(2), <<1, UNUSED_BLOCK>>) @@
             Int32LE(SectorAt(2) + 4 * 127, END_OF_CHAIN)]

TablesBuffers ==
    { TablesBuffer(batCount, xbatCount, sbatStart, sbatCount, next) :
        batCount \in {109, 110}, xbatCount \in {0, 1},
        sbatStart \in {3, FarSector, END_OF_CHAIN}, sbatCount \in 0..MaxSbatCount,
        next \in {FarSector + 1, END_OF_CHAIN} }

InitTables ==
    /\ ds \in TablesBuffers
    /\ pc = "tables"
    /\ fileData = Idle
    /\ headers = Idle
    /\ ret = Idle
    /\ arg = Idle
    /\ hier = Idle
    /\ walk = [at |-> "headerData", msgData |-> Idle]

\* let msgData = MsgReader.#headerData(ds)
TablesHeaderData ==
    /\ pc = "tables" /\ walk.at = "headerData"
    /\ walk' = [at |-> "batData", msgData |-> HeaderData(ds)]
    /\ UNCHANGED <<ds, headers, pc, fileData, ret, arg, hier>>

\* msgData.batData = MsgReader.#batData(ds, msgData)
TablesBatData ==
    /\ pc = "tables" /\ walk.at = "batData"
    /\ walk' = [at |-> "sbatData",
                msgData |-> [walk.msgData EXCEPT !.batData = BatData(ds, walk.msgData)]]
    /\ UNCHANGED <<ds, headers, pc, fileData, ret, arg, hier>>

\* msgData.sbatData = MsgReader.#sbatData(ds, msgData)
TablesSbatData ==
    /\ pc = "tables" /\ walk.at = "sbatData"
    /\ walk' = [at |-> "xbatData",
                msgData |-> [walk.msgData EXCEPT !.sbatData = SbatData(ds, walk.msgData)]]
    /\ UNCHANGED <<ds, headers, pc, fileData, ret, arg, hier>>

\* if (msgData.xbatCount > 0) { MsgReader.#xbatData(ds, msgData); }
TablesXbatData ==
    /\ pc = "tables" /\ walk.at = "xbatData"
    /\ walk' = [at |-> "propertyData",
                msgData |-> IF walk.msgData.xbatCount > 0
                            THEN [walk.msgData EXCEPT
                                     !.batData = XbatData(ds, walk.msgData)]
                            ELSE walk.msgData]
    /\ UNCHANGED <<ds, headers, pc, fileData, ret, arg, hier>>

NextTables == TablesHeaderData \/ TablesBatData \/ TablesSbatData \/ TablesXbatData

SpecTables == InitTables /\ [][NextTables]_vars

\* the regular table with the entries of the DIFAT sectors
CompleteTable == MsgDataXbat(ds).batData

\* #sbatData has run
MiniTableBuilt == walk.at \in {"xbatData", "propertyData"}

\* C28: the mini-FAT sector list is built when the regular table already
\* has the entries of the DIFAT sectors, so it is the list that the walk
\* from the mini-FAT start sector gives over the complete regular table
C28_MiniWalkUsesCompleteTable ==
    /\ [][walk'.at = "xbatData" => walk.msgData.batData = CompleteTable]_vars
    /\ [](MiniTableBuilt =>
            walk.msgData.sbatData
               = SbatData(ds, [walk.msgData EXCEPT !.batData = CompleteTable]))


(***************************************************************************)
(* SpecRecipients: getTo, getCc and getBcc on a reader whose parsed bag    *)
(* has 1 .. MaxRecipients recipients, each of one of the shapes drawn, and *)
(* DisplayTo and DisplayCc or not; the transport headers are absent, or    *)
(* have the one header 'cc'.                                               *)
(***************************************************************************)
MaxRecipients == 2

\* a string value as a unicode stream decodes to it
StringValue(units) ==
    Elements("unicode", Len(units), [k \in 0..(Len(units) - 1) |-> units[k + 1]])

\* a bag with the given strings under the given names
BagWith(fields, top) ==
    [NewBag(top) EXCEPT
        !.vals = [k \in { Key(n, <<>>, 0) : n \in DOMAIN fields } |->
                     StringValue(fields[k.name])]]

\* the recipients drawn: 'r' with the address 'a@b'; 's' with the
\* directory address 'x' and the SMTP address 'c@d'; 's' with two
\* addresses that are not valid; 'r' without address; the address 'a@b'
\* without name; the directory address 'x' alone; and an empty bag
RecipientShapes ==
    { ("DisplayName" :> <<114>>) @@ ("EmailAddress" :> <<97, 64, 98>>),
      ("DisplayName" :> <<115>>) @@ ("EmailAddress" :> <<120>>)
          @@ ("SmtpAddress" :> <<99, 64, 100>>),
      ("DisplayName" :> <<115>>) @@ ("EmailAddress" :> <<120>>)
          @@ ("SmtpAddress" :> <<121>>),
      ("DisplayName" :> <<114>>),
      ("EmailAddress" :> <<97, 64, 98>>),
      ("EmailAddress" :> <<120>>),
      <<>> }

\* the lists of n recipients
RECURSIVE RecipientLists(_)
RecipientLists(n) ==
    IF n = 0 THEN {<<>>}
    ELSE { Append(list, BagWith(shape, FALSE)) :
             list \in RecipientLists(n - 1), shape \in RecipientShapes }

\* DisplayTo 'r' or none, DisplayCc 's' or none
DisplayShapes ==
    { <<>>, ("DisplayTo" :> <<114>>), ("DisplayCc" :> <<115>>),
      ("DisplayTo" :> <<114>>) @@ ("DisplayCc" :> <<115>>) }

RecipientInputs ==
    { [BagWith(display, TRUE) EXCEPT !.recipients = list] :
        display \in DisplayShapes,
        list \in UNION { RecipientLists(n) : n \in 1..MaxRecipients } }

\* no transport headers, or the header 'cc: s'
RecipientHeaders == { NoHeaders, HeadersObject(SplitHeaders(<<99, 99, 58, 32, 115>>).obj) }

InitRecipients ==
    /\ ds = NoBuffer
    /\ pc = "recipients"
    /\ \E bag \in RecipientInputs : fileData = [fieldsData |-> bag]
    /\ headers \in RecipientHeaders
    /\ ret = Idle
    /\ arg = Idle
    /\ hier = Idle
    /\ walk = Idle

GetBccCall ==
    /\ pc = "recipients"
    /\ ret' = [op |-> "getBcc", out |-> GetBcc(headers, fileData.fieldsData)]
    /\ UNCHANGED <<ds, headers, pc, fileData, arg, hier, walk>>

GetCcCall ==
    /\ pc = "recipients"
    /\ ret' = [op |-> "getCc", out |-> GetCc(headers, fileData.fieldsData)]
    /\ UNCHANGED <<ds, headers, pc, fileData, arg, hier, walk>>

GetToCall ==
    /\ pc = "recipients"
    /\ ret' = [op |-> "getTo", out |-> GetTo(headers, fileData.fieldsData)]
    /\ UNCHANGED <<ds, headers, pc, fileData, arg, hier, walk>>

NextRecipients == GetBccCall \/ GetCcCall \/ GetToCall

SpecRecipients == InitRecipients /\ [][NextRecipients]_vars

\* the recipient has a non-empty display name or address
HasNameOrAddress(recipient) ==
    \E n \in {"DisplayName", "EmailAddress", "SmtpAddress"} :
        /\ IsStringValue(BagValue(recipient, n))
        /\ Trim(AsSeq(BagValue(recipient, n))) # <<>>

\* C29: on a message without the corresponding transport header getTo,
\* getCc and getBcc return a string, whichever of DisplayName, EmailAddress
\* and SmtpAddress the recipients have; and every recipient with a
\* non-empty address or display name is listed in exactly one of the three
\* results: they list as many recipients as there are such recipients
C29_RecipientsAsStrings ==
    (pc = "recipients" /\ ret # Idle /\ ~ret.out.header) =>
        /\ ret.out.err = ""
        /\ ret.out.v.t = "string"
        /\ LET response == GetRecipientsResponse(fileData.fieldsData)
               listed == { k \in DOMAIN fileData.fieldsData.recipients :
                             HasNameOrAddress(fileData.fieldsData.recipients[k]) }
           IN  Len(response.to) + Len(response.cc) + Len(response.bcc)
                   = Cardinality(listed)


(***************************************************************************)
(* SpecRecords: #readRootProperties applied to a property stream with the  *)
(* 32-byte header and 1 .. MaxRecords 16-byte records, each with a type    *)
(* and a property id drawn: the ids 0017 (Importance) and 0e07             *)
(* (MessageFlags), and ffff and fffe, which MAPI_PROPERTIES does not have. *)
(***************************************************************************)
MaxRecords == 2

RecordTags == [type : {2, 3}, id : {23, 3591, 65534, 65535}]

\* the 16 bytes of a record: type, id, flags 6, payload 1
RecordBytes(r) ==
    <<r.type % 256, r.type \div 256, r.id % 256, r.id \div 256,
      6, 0, 0, 0, 1, 0, 0, 0, 0, 0, 0, 0>>

\* the stream of the records rs
RecordsStream(rs) ==
    Elements("binary", 32 + 16 * Len(rs),
             [o \in 32..(31 + 16 * Len(rs)) |->
                 RecordBytes(rs[((o - 32) \div 16) + 1])[((o - 32) % 16) + 1]])

\* the lists of n records
RECURSIVE RecordLists(_)
RecordLists(n) ==
    IF n = 0 THEN {<<>>}
    ELSE { Append(list, r) : list \in RecordLists(n - 1), r \in RecordTags }

InitRecords ==
    /\ arg \in UNION { RecordLists(n) : n \in 1..MaxRecords }
    /\ pc = "records"
    /\ ret = Idle
    /\ ds = NoBuffer
    /\ fileData = Idle
    /\ headers = Idle
    /\ hier = Idle
    /\ walk = Idle

ReadRecords ==
    /\ pc = "records"
    /\ ret' = ReadRootProperties(RecordsStream(arg))
    /\ pc' = "read"
    /\ UNCHANGED <<ds, headers, fileData, arg, hier, walk>>

NextRecords == ReadRecords

SpecRecords == InitRecords /\ [][NextRecords]_vars

\* the property tags (type and id) of the records of the stream
TagsOfStream == { <<arg[k].type, arg[k].id>> : k \in DOMAIN arg }

\* C30: every 16-byte record of the fixed property stream is retained in
\* _properties: the number of record entries of _properties (the _header
\* entry aside) is the number of distinct property tags in the stream
C30_OneEntryPerTag ==
    pc = "read" =>
        /\ ret.err = ""
        /\ Cardinality(DOMAIN ret.props.recs) = Cardinality(TagsOfStream)

====
